---- MODULE Spec2Model ----
(***************************************************************************)
(* Model of the tenant-routing CNI wrapper: the three command handlers     *)
(* (cmdAdd, cmdDel, cmdCheck), configuration and argument parsing, the     *)
(* delegation client, the annotation resolver, the result extractor and    *)
(* the iptables mark-rule manager.  The host rule table and the metadata   *)
(* store are the only state that outlives an invocation.                   *)
(***************************************************************************)
EXTENDS Integers, Sequences, FiniteSets, TLC

VARIABLES
    table,   \* host rule table (mangle/PREROUTING): rulespec -> number of copies
    store,   \* metadata store: the pod object and its namespace object
    last,    \* the invocation that has just returned: inputs, outcome, external calls
    running  \* manager calls in progress at the same time on the host, step by step

vars == <<table, store, last, running>>

-----------------------------------------------------------------------------
(* Errors.  A Go error is the chain of its messages, outermost first, and   *)
(* the values formatted into the outermost message.  nil is the empty one.  *)

NoError == [chain |-> <<>>, args |-> <<>>]

Err(msg) == [chain |-> <<msg>>, args |-> <<>>]

ErrArgs(msg, a) == [chain |-> <<msg>>, args |-> a]

\* fmt.Errorf("msg: %w", err)
Wrap(msg, err) == [chain |-> <<msg>> \o err.chain, args |-> err.args]

IsError(err) == err.chain # <<>>

\* One call that leaves the process: op(a, b) with its outcome res.
Call(op, a, b, res) == [op |-> op, a |-> a, b |-> b, res |-> res]

-----------------------------------------------------------------------------
(* Configuration parsing (package config).                                  *)

DefaultAnnotationKey == "tenant.routing/fwmark"

\* filepath.IsAbs on a path given as its sequence of characters.
IsAbs(path) == Len(path) > 0 /\ path[1] = "/"

\* strings.Contains(path, ".."): two adjacent dots anywhere in the path.
ContainsDotDot(path) ==
    \E i \in 1..(Len(path) - 1) : path[i] = "." /\ path[i + 1] = "."

\* A types.Result that is nil.
NilResult == [shape |-> "nil", ips |-> <<>>]

\* PluginConf embeds types.NetConf, whose PrevResult field is tagged json:"-"
\* and whose raw form is RawPrevResult (json:"prevResult"): json.Unmarshal
\* fills RawPrevResult only, and ParseConfig converts nothing afterwards.
PluginConf(stdin) ==
    [CNIVersion    |-> stdin.cniVersion,
     Name          |-> stdin.name,
     Kubeconfig    |-> stdin.kubeconfig,
     AnnotationKey |-> stdin.annotationKey,
     Delegate      |-> stdin.delegate,
     RawPrevResult |-> stdin.prevResult,
     PrevResult    |-> NilResult]

ParseConfig_NoDelegateCheck(stdin) ==
    LET conf == PluginConf(stdin) IN
    IF ~stdin.json
    THEN [conf |-> conf, err |-> Wrap("failed to parse network configuration", Err("json"))]
    ELSE IF conf.Kubeconfig = <<>>
    THEN [conf |-> conf, err |-> Err("kubeconfig path is required")]
    ELSE IF ~IsAbs(conf.Kubeconfig)
    THEN [conf |-> conf, err |-> ErrArgs("kubeconfig path must be absolute", <<conf.Kubeconfig>>)]
    ELSE IF ContainsDotDot(conf.Kubeconfig)
    THEN [conf |-> conf, err |-> ErrArgs("kubeconfig path cannot contain '..' components", <<conf.Kubeconfig>>)]
    ELSE [conf |-> IF conf.AnnotationKey = ""
                   THEN [conf EXCEPT !.AnnotationKey = DefaultAnnotationKey]
                   ELSE conf,
          err  |-> NoError]

ParseConfig_DotDotBeforeAbsolute(stdin) ==
    LET conf == PluginConf(stdin) IN
    IF ~stdin.json
    THEN [conf |-> conf, err |-> Wrap("failed to parse network configuration", Err("json"))]
    ELSE IF conf.Delegate.raw = "absent"
    THEN [conf |-> conf, err |-> Err("delegate plugin configuration is required")]
    ELSE IF conf.Kubeconfig = <<>>
    THEN [conf |-> conf, err |-> Err("kubeconfig path is required")]
    ELSE IF ContainsDotDot(conf.Kubeconfig)
    THEN [conf |-> conf, err |-> ErrArgs("kubeconfig path cannot contain '..' components", <<conf.Kubeconfig>>)]
    ELSE IF ~IsAbs(conf.Kubeconfig)
    THEN [conf |-> conf, err |-> ErrArgs("kubeconfig path must be absolute", <<conf.Kubeconfig>>)]
    ELSE [conf |-> IF conf.AnnotationKey = ""
                   THEN [conf EXCEPT !.AnnotationKey = DefaultAnnotationKey]
                   ELSE conf,
          err  |-> NoError]

ParseConfig_NoDotDotCheck(stdin) ==
    LET conf == PluginConf(stdin) IN
    IF ~stdin.json
    THEN [conf |-> conf, err |-> Wrap("failed to parse network configuration", Err("json"))]
    ELSE IF conf.Delegate.raw = "absent"
    THEN [conf |-> conf, err |-> Err("delegate plugin configuration is required")]
    ELSE IF conf.Kubeconfig = <<>>
    THEN [conf |-> conf, err |-> Err("kubeconfig path is required")]
    ELSE IF ~IsAbs(conf.Kubeconfig)
    THEN [conf |-> conf, err |-> ErrArgs("kubeconfig path must be absolute", <<conf.Kubeconfig>>)]
    ELSE [conf |-> IF conf.AnnotationKey = ""
                   THEN [conf EXCEPT !.AnnotationKey = DefaultAnnotationKey]
                   ELSE conf,
          err  |-> NoError]

\* ParseConfig: the stdin blob is well-formed JSON or not (stdin.json); the
\* delegate field is absent (raw = "absent") or captured raw.
ParseConfig(stdin) ==
    LET conf == PluginConf(stdin) IN
    IF ~stdin.json
    THEN [conf |-> conf, err |-> Wrap("failed to parse network configuration", Err("json"))]
    ELSE IF conf.Delegate.raw = "absent"
    THEN [conf |-> conf, err |-> Err("delegate plugin configuration is required")]
    ELSE IF conf.Kubeconfig = <<>>
    THEN [conf |-> conf, err |-> Err("kubeconfig path is required")]
    ELSE IF ~IsAbs(conf.Kubeconfig)
    THEN [conf |-> conf, err |-> ErrArgs("kubeconfig path must be absolute", <<conf.Kubeconfig>>)]
    ELSE IF ContainsDotDot(conf.Kubeconfig)
    THEN [conf |-> conf, err |-> ErrArgs("kubeconfig path cannot contain '..' components", <<conf.Kubeconfig>>)]
    ELSE [conf |-> IF conf.AnnotationKey = ""
                   THEN [conf EXCEPT !.AnnotationKey = DefaultAnnotationKey]
                   ELSE conf,
          err  |-> NoError]

-----------------------------------------------------------------------------
(* Argument parsing (package main).  CNI_ARGS is a sequence of tokens: the  *)
(* separators ";" and "=", the two key texts, and value characters.         *)

\* strings.Split(s, sep): the pieces between the separators, in order.
RECURSIVE Split(_, _)
Split(s, sep) ==
    IF \A i \in 1..Len(s) : s[i] # sep
    THEN <<s>>
    ELSE LET i == CHOOSE k \in 1..Len(s) :
                      s[k] = sep /\ \A j \in 1..(k - 1) : s[j] # sep
         IN  <<SubSeq(s, 1, i - 1)>> \o Split(SubSeq(s, i + 1, Len(s)), sep)

SplitN2_EveryEquals(s, sep) == Split(s, sep)

\* strings.SplitN(s, sep, 2): cut at the first separator only.
SplitN2(s, sep) ==
    IF \A i \in 1..Len(s) : s[i] # sep
    THEN <<s>>
    ELSE LET i == CHOOSE k \in 1..Len(s) :
                      s[k] = sep /\ \A j \in 1..(k - 1) : s[j] # sep
         IN  <<SubSeq(s, 1, i - 1), SubSeq(s, i + 1, Len(s))>>

\* The loop of parseCNIArgs over the pairs, from (podName, podNamespace) = acc.
RECURSIVE ScanPairs(_, _)
ScanPairs(pairs, acc) ==
    IF pairs = <<>> THEN acc
    ELSE LET kv == SplitN2(Head(pairs), "=") IN
         ScanPairs(Tail(pairs),
             IF Len(kv) # 2 THEN acc
             ELSE IF kv[1] = <<"K8S_POD_NAME">> THEN [acc EXCEPT !.podName = kv[2]]
             ELSE IF kv[1] = <<"K8S_POD_NAMESPACE">> THEN [acc EXCEPT !.podNamespace = kv[2]]
             ELSE acc)

ArgsFailure(msg) == [podName |-> <<>>, podNamespace |-> <<>>, err |-> Err(msg)]

parseCNIArgs_NoNamespaceCheck(cniArgs) ==
    IF cniArgs = <<>> THEN ArgsFailure("CNI_ARGS is empty")
    ELSE LET got == ScanPairs(Split(cniArgs, ";"),
                              [podName |-> <<>>, podNamespace |-> <<>>])
         IN  IF got.podName = <<>>
             THEN ArgsFailure("K8S_POD_NAME not found in CNI_ARGS")
             ELSE [podName |-> got.podName, podNamespace |-> got.podNamespace,
                   err |-> NoError]

parseCNIArgs(cniArgs) ==
    IF cniArgs = <<>> THEN ArgsFailure("CNI_ARGS is empty")
    ELSE LET got == ScanPairs(Split(cniArgs, ";"),
                              [podName |-> <<>>, podNamespace |-> <<>>])
         IN  IF got.podName = <<>>
             THEN ArgsFailure("K8S_POD_NAME not found in CNI_ARGS")
             ELSE IF got.podNamespace = <<>>
             THEN ArgsFailure("K8S_POD_NAMESPACE not found in CNI_ARGS")
             ELSE [podName |-> got.podName, podNamespace |-> got.podNamespace,
                   err |-> NoError]

-----------------------------------------------------------------------------
(* Result extractor (package result).  A result is its concrete type        *)
(* (shape "100", "040", another type, or nil) and its address list; an      *)
(* address is the text of a net.IP, or NilIP.                               *)

IPv4Addrs == {"10.200.1.5", "10.200.1.6"}

IPv6Addrs == {"2001:db8::1"}

NilIP == "<nil>"

\* ip.To4() != nil
To4(ip) == ip \in IPv4Addrs

\* The loop shared by both shapes: the first entry that is not nil and is IPv4.
RECURSIVE FirstIPv4(_)
FirstIPv4(ips) ==
    IF ips = <<>>
    THEN [ip |-> "", err |-> Err("CNI result contains no IPv4 addresses (only IPv6)")]
    ELSE IF Head(ips) = NilIP THEN FirstIPv4(Tail(ips))
    ELSE IF To4(Head(ips)) THEN [ip |-> Head(ips), err |-> NoError]
    ELSE FirstIPv4(Tail(ips))

extractIPv4FromResult100(result) ==
    IF Len(result.ips) = 0
    THEN [ip |-> "", err |-> Err("CNI result contains no IP addresses")]
    ELSE FirstIPv4(result.ips)

extractIPv4FromResult040_NoEmptyCheck(result) == FirstIPv4(result.ips)

extractIPv4FromResult040(result) ==
    IF Len(result.ips) = 0
    THEN [ip |-> "", err |-> Err("CNI result contains no IP addresses")]
    ELSE FirstIPv4(result.ips)

ExtractPodIP(result) ==
    IF result.shape = "nil" THEN [ip |-> "", err |-> Err("CNI result is nil")]
    ELSE IF result.shape = "100" THEN extractIPv4FromResult100(result)
    ELSE IF result.shape = "040" THEN extractIPv4FromResult040(result)
    ELSE [ip |-> "", err |-> ErrArgs("unsupported CNI result type", <<result.shape>>)]

-----------------------------------------------------------------------------
(* Mark-rule manager (package iptables).                                    *)

FwmarkTenantA == "0x10"

FwmarkTenantB == "0x20"

\* The address and tag texts the manager is called with.
IPStrings == IPv4Addrs \cup {"", " ", "10.200.1.5; rm -rf /"}

MarkStrings == {"0x10", "0x20", " 0X10", "0x30", "0x0e00", ""}

\* strings.TrimSpace and strings.ToLower on these texts.
TrimSpace(s) == IF s = " " THEN "" ELSE IF s = " 0X10" THEN "0X10" ELSE s

ToLower(s) == IF s = "0X10" THEN "0x10" ELSE IF s = " 0X10" THEN " 0x10" ELSE s

ParseIP_AcceptsAnyText(s) == TrimSpace(s) # ""

\* net.ParseIP(s) != nil
ParseIP(s) == s \in IPv4Addrs \cup IPv6Addrs

iptables_validateFwmark_AcceptsNonEmpty(fwmark) ==
    IF fwmark = "" THEN ErrArgs("invalid fwmark", <<fwmark>>) ELSE NoError

iptables_validateFwmark(fwmark) ==
    LET normalized == ToLower(TrimSpace(fwmark)) IN
    IF normalized # FwmarkTenantA /\ normalized # FwmarkTenantB
    THEN ErrArgs("invalid fwmark", <<fwmark>>)
    ELSE NoError

\* The rulespec "-s podIP -j MARK --set-mark fwmark".
RuleSpec(podIP, fwmark) == <<podIP, fwmark>>

\* Every rulespec that passes the manager's validation.
RuleSpecs ==
    {RuleSpec(ip, m) : ip \in {s \in IPStrings : ParseIP(s)},
                       m \in {s \in MarkStrings : ~IsError(iptables_validateFwmark(s))}}

EmptyTable == [r \in RuleSpecs |-> 0]

\* The rule tool on mangle/PREROUTING: iptables -C, -A and -D.
IptExists(tbl, rule) == tbl[rule] > 0

IptAppend(tbl, rule) == [tbl EXCEPT ![rule] = @ + 1]

IptDelete(tbl, rule) == [tbl EXCEPT ![rule] = @ - 1]

\* How the rule tool behaves during one manager call: it works ("none"), or
\* iptables.New fails ("init"), or -C fails ("exists"), or -A/-D fails ("modify").
IptFaults == {"none", "init", "exists", "modify"}

MgrReturn(err, tbl, calls) == [err |-> err, table |-> tbl, calls |-> calls]

\* The validation all three operations make before touching the rule tool.
ValidateRuleInput(podIP, fwmark) ==
    IF TrimSpace(podIP) = "" THEN Err("podIP cannot be empty")
    ELSE IF ~ParseIP(podIP) THEN ErrArgs("invalid IP address format", <<podIP>>)
    ELSE iptables_validateFwmark(fwmark)

NewManagerCall(fault) ==
    Call("iptables.New", "", "", IF fault = "init" THEN "error" ELSE "ok")

ExistsCall(podIP, fwmark, fault, tbl) ==
    Call("Exists", podIP, fwmark,
         IF fault = "exists" THEN "error"
         ELSE IF IptExists(tbl, RuleSpec(podIP, fwmark)) THEN "true" ELSE "false")

AddMarkRule_NoExistsCheck(podIP, fwmark, fault, tbl) ==
    LET invalid == ValidateRuleInput(podIP, fwmark)
        rule    == RuleSpec(podIP, fwmark)
        new     == NewManagerCall(fault)
    IN
    IF IsError(invalid) THEN MgrReturn(invalid, tbl, <<>>)
    ELSE IF fault = "init"
    THEN MgrReturn(Wrap("failed to initialize iptables", Err("iptables")), tbl, <<new>>)
    ELSE IF fault = "modify"
    THEN MgrReturn(Wrap("failed to add mark rule", Err("iptables")), tbl,
                   <<new, Call("Append", podIP, fwmark, "error")>>)
    ELSE MgrReturn(NoError, IptAppend(tbl, rule),
                   <<new, Call("Append", podIP, fwmark, "ok")>>)

AddMarkRule(podIP, fwmark, fault, tbl) ==
    LET invalid == ValidateRuleInput(podIP, fwmark)
        rule    == RuleSpec(podIP, fwmark)
        new     == NewManagerCall(fault)
        exists  == ExistsCall(podIP, fwmark, fault, tbl)
    IN
    IF IsError(invalid) THEN MgrReturn(invalid, tbl, <<>>)
    ELSE IF fault = "init"
    THEN MgrReturn(Wrap("failed to initialize iptables", Err("iptables")), tbl, <<new>>)
    ELSE IF fault = "exists"
    THEN MgrReturn(Wrap("failed to check if rule exists", Err("iptables")), tbl,
                   <<new, exists>>)
    ELSE IF IptExists(tbl, rule)
    THEN MgrReturn(NoError, tbl, <<new, exists>>)
    ELSE IF fault = "modify"
    THEN MgrReturn(Wrap("failed to add mark rule", Err("iptables")), tbl,
                   <<new, exists, Call("Append", podIP, fwmark, "error")>>)
    ELSE MgrReturn(NoError, IptAppend(tbl, rule),
                   <<new, exists, Call("Append", podIP, fwmark, "ok")>>)

RuleExists_InstallsWhenAbsent(podIP, fwmark, fault, tbl) ==
    LET invalid == ValidateRuleInput(podIP, fwmark)
        new     == NewManagerCall(fault)
        exists  == ExistsCall(podIP, fwmark, fault, tbl)
    IN
    IF IsError(invalid)
    THEN [exists |-> FALSE, err |-> invalid, table |-> tbl, calls |-> <<>>]
    ELSE IF fault = "init"
    THEN [exists |-> FALSE, err |-> Wrap("failed to initialize iptables", Err("iptables")),
          table |-> tbl, calls |-> <<new>>]
    ELSE IF fault = "exists"
    THEN [exists |-> FALSE, err |-> Wrap("failed to check if rule exists", Err("iptables")),
          table |-> tbl, calls |-> <<new, exists>>]
    ELSE IF IptExists(tbl, RuleSpec(podIP, fwmark))
    THEN [exists |-> TRUE, err |-> NoError, table |-> tbl, calls |-> <<new, exists>>]
    ELSE [exists |-> FALSE, err |-> NoError,
          table |-> IptAppend(tbl, RuleSpec(podIP, fwmark)), calls |-> <<new, exists>>]

\* RuleExists returns (exists, err).
RuleExists(podIP, fwmark, fault, tbl) ==
    LET invalid == ValidateRuleInput(podIP, fwmark)
        new     == NewManagerCall(fault)
        exists  == ExistsCall(podIP, fwmark, fault, tbl)
    IN
    IF IsError(invalid)
    THEN [exists |-> FALSE, err |-> invalid, table |-> tbl, calls |-> <<>>]
    ELSE IF fault = "init"
    THEN [exists |-> FALSE, err |-> Wrap("failed to initialize iptables", Err("iptables")),
          table |-> tbl, calls |-> <<new>>]
    ELSE IF fault = "exists"
    THEN [exists |-> FALSE, err |-> Wrap("failed to check if rule exists", Err("iptables")),
          table |-> tbl, calls |-> <<new, exists>>]
    ELSE [exists |-> IptExists(tbl, RuleSpec(podIP, fwmark)), err |-> NoError,
          table |-> tbl, calls |-> <<new, exists>>]

DeleteMarkRule_FailsWhenAbsent(podIP, fwmark, fault, tbl) ==
    LET invalid == ValidateRuleInput(podIP, fwmark)
        rule    == RuleSpec(podIP, fwmark)
        new     == NewManagerCall(fault)
    IN
    IF IsError(invalid) THEN MgrReturn(invalid, tbl, <<>>)
    ELSE IF fault = "init"
    THEN MgrReturn(Wrap("failed to initialize iptables", Err("iptables")), tbl, <<new>>)
    ELSE IF fault = "modify" \/ ~IptExists(tbl, rule)
    THEN MgrReturn(Wrap("failed to delete mark rule", Err("iptables")), tbl,
                   <<new, Call("Delete", podIP, fwmark, "error")>>)
    ELSE MgrReturn(NoError, IptDelete(tbl, rule),
                   <<new, Call("Delete", podIP, fwmark, "ok")>>)

DeleteMarkRule(podIP, fwmark, fault, tbl) ==
    LET invalid == ValidateRuleInput(podIP, fwmark)
        rule    == RuleSpec(podIP, fwmark)
        new     == NewManagerCall(fault)
        exists  == ExistsCall(podIP, fwmark, fault, tbl)
    IN
    IF IsError(invalid) THEN MgrReturn(invalid, tbl, <<>>)
    ELSE IF fault = "init"
    THEN MgrReturn(Wrap("failed to initialize iptables", Err("iptables")), tbl, <<new>>)
    ELSE IF fault = "exists"
    THEN MgrReturn(Wrap("failed to check if rule exists", Err("iptables")), tbl,
                   <<new, exists>>)
    ELSE IF ~IptExists(tbl, rule)
    THEN MgrReturn(NoError, tbl, <<new, exists>>)
    ELSE IF fault = "modify"
    THEN MgrReturn(Wrap("failed to delete mark rule", Err("iptables")), tbl,
                   <<new, exists, Call("Delete", podIP, fwmark, "error")>>)
    ELSE MgrReturn(NoError, IptDelete(tbl, rule),
                   <<new, exists, Call("Delete", podIP, fwmark, "ok")>>)

-----------------------------------------------------------------------------
(* Annotation resolver and client (package k8s).  An object of the store is *)
(* absent or carries a map of annotations; the store holds one pod and its  *)
(* namespace.  api tells whether each API call itself fails (an unreachable *)
(* server, a timeout after K8sAPITimeout).                                  *)

ValidFwmarkValues == {"0x10", "0x20"}

k8s_validateFwmark(fwmark) ==
    IF fwmark \notin ValidFwmarkValues
    THEN ErrArgs("fwmark value not in allowed set (0x10, 0x20)", <<fwmark>>)
    ELSE NoError

PodName == <<"web">>

PodNamespace == <<"production">>

NoAnnotations == [k \in {} |-> ""]

Annotated(key, value) == [k \in {key} |-> value]

Object(ann) == [exists |-> TRUE, ann |-> ann]

Gone == [exists |-> FALSE, ann |-> NoAnnotations]

FwReturn(fwmark, err, calls) == [fwmark |-> fwmark, err |-> err, calls |-> calls]

GetFwmark_NoFallback(st, podName, podNamespace, annotationKey, api) ==
    LET podFound == st.pod.exists /\ podName = PodName /\ podNamespace = PodNamespace
        nsFound  == st.ns.exists /\ podNamespace = PodNamespace
        getPod   == Call("GetPod", podNamespace, podName,
                        IF api.pod = "error" THEN "error"
                        ELSE IF podFound THEN "ok" ELSE "notfound")
        getNs    == Call("GetNamespace", podNamespace, "",
                        IF api.ns = "error" THEN "error"
                        ELSE IF nsFound THEN "ok" ELSE "notfound")
    IN
    IF api.pod = "error"
    THEN FwReturn("", Wrap("failed to get pod", Err("api")), <<getPod>>)
    ELSE IF ~podFound
    THEN FwReturn("", Wrap("pod not found", Err("notfound")), <<getPod>>)
    ELSE IF annotationKey \in DOMAIN st.pod.ann
    THEN LET fwmark == st.pod.ann[annotationKey] IN
         IF IsError(k8s_validateFwmark(fwmark))
         THEN FwReturn("", Wrap("invalid fwmark in pod annotation",
                                k8s_validateFwmark(fwmark)), <<getPod>>)
         ELSE FwReturn(fwmark, NoError, <<getPod>>)
    ELSE FwReturn("", NoError, <<getPod>>)

GetFwmark_InvalidPodFallsBack(st, podName, podNamespace, annotationKey, api) ==
    LET podFound == st.pod.exists /\ podName = PodName /\ podNamespace = PodNamespace
        nsFound  == st.ns.exists /\ podNamespace = PodNamespace
        getPod   == Call("GetPod", podNamespace, podName,
                        IF api.pod = "error" THEN "error"
                        ELSE IF podFound THEN "ok" ELSE "notfound")
        getNs    == Call("GetNamespace", podNamespace, "",
                        IF api.ns = "error" THEN "error"
                        ELSE IF nsFound THEN "ok" ELSE "notfound")
    IN
    IF api.pod = "error"
    THEN FwReturn("", Wrap("failed to get pod", Err("api")), <<getPod>>)
    ELSE IF ~podFound
    THEN FwReturn("", Wrap("pod not found", Err("notfound")), <<getPod>>)
    ELSE IF /\ annotationKey \in DOMAIN st.pod.ann
            /\ ~IsError(k8s_validateFwmark(st.pod.ann[annotationKey]))
    THEN FwReturn(st.pod.ann[annotationKey], NoError, <<getPod>>)
    ELSE IF api.ns = "error"
    THEN FwReturn("", Wrap("failed to get namespace", Err("api")), <<getPod, getNs>>)
    ELSE IF ~nsFound
    THEN FwReturn("", Wrap("namespace not found", Err("notfound")), <<getPod, getNs>>)
    ELSE IF annotationKey \in DOMAIN st.ns.ann
    THEN LET fwmark == st.ns.ann[annotationKey] IN
         IF IsError(k8s_validateFwmark(fwmark))
         THEN FwReturn("", Wrap("invalid fwmark in namespace annotation",
                                k8s_validateFwmark(fwmark)), <<getPod, getNs>>)
         ELSE FwReturn(fwmark, NoError, <<getPod, getNs>>)
    ELSE FwReturn("", NoError, <<getPod, getNs>>)

GetFwmark(st, podName, podNamespace, annotationKey, api) ==
    LET podFound == st.pod.exists /\ podName = PodName /\ podNamespace = PodNamespace
        nsFound  == st.ns.exists /\ podNamespace = PodNamespace
        getPod   == Call("GetPod", podNamespace, podName,
                        IF api.pod = "error" THEN "error"
                        ELSE IF podFound THEN "ok" ELSE "notfound")
        getNs    == Call("GetNamespace", podNamespace, "",
                        IF api.ns = "error" THEN "error"
                        ELSE IF nsFound THEN "ok" ELSE "notfound")
    IN
    IF api.pod = "error"
    THEN FwReturn("", Wrap("failed to get pod", Err("api")), <<getPod>>)
    ELSE IF ~podFound
    THEN FwReturn("", Wrap("pod not found", Err("notfound")), <<getPod>>)
    ELSE IF annotationKey \in DOMAIN st.pod.ann
    THEN LET fwmark == st.pod.ann[annotationKey] IN
         IF IsError(k8s_validateFwmark(fwmark))
         THEN FwReturn("", Wrap("invalid fwmark in pod annotation",
                                k8s_validateFwmark(fwmark)), <<getPod>>)
         ELSE FwReturn(fwmark, NoError, <<getPod>>)
    ELSE IF api.ns = "error"
    THEN FwReturn("", Wrap("failed to get namespace", Err("api")), <<getPod, getNs>>)
    ELSE IF ~nsFound
    THEN FwReturn("", Wrap("namespace not found", Err("notfound")), <<getPod, getNs>>)
    ELSE IF annotationKey \in DOMAIN st.ns.ann
    THEN LET fwmark == st.ns.ann[annotationKey] IN
         IF IsError(k8s_validateFwmark(fwmark))
         THEN FwReturn("", Wrap("invalid fwmark in namespace annotation",
                                k8s_validateFwmark(fwmark)), <<getPod, getNs>>)
         ELSE FwReturn(fwmark, NoError, <<getPod, getNs>>)
    ELSE FwReturn("", NoError, <<getPod, getNs>>)

\* NewClient with a non-empty path: the kubeconfig file is usable or it is not.
NewClient(kubeconfigPath, usable) ==
    [err   |-> IF usable THEN NoError
               ELSE ErrArgs("kubeconfig file does not exist", <<kubeconfigPath>>),
     calls |-> <<Call("NewClient", kubeconfigPath, "", IF usable THEN "ok" ELSE "error")>>]

-----------------------------------------------------------------------------
(* Delegation client (package delegate).  A delegate blob is the raw JSON   *)
(* captured by ParseConfig: an object with its fields, or null, or another  *)
(* JSON value; type is "" when the object has no string type field.         *)

\* json.Unmarshal into map[string]any keeps strings and nested objects as
\* they are and turns every JSON number into a float64, the nearest value
\* with a 53-bit mantissa: 9007199254740993 (2^53 + 1) becomes 2^53.  A
\* number is held as its text; "" is a blob without the field.
Float64(number) ==
    CASE number = "9007199254740993" -> "9007199254740992"
      [] OTHER                       -> number

\* The map[string]any that json.Unmarshal fills from a blob that is a JSON
\* object or null.
Unmarshal(delegateConfig) ==
    [delegateConfig EXCEPT !.raw = "map", !.number = Float64(@)]

\* json.Marshal of the map: a JSON object again, a float64 below 1e21 written
\* in full without exponent.
Marshal(delegateConf) == [delegateConf EXCEPT !.raw = "object"]

DgReturn(result, err, calls) == [result |-> result, err |-> err, calls |-> calls]

Delegate_RetriesOnFailure(command, delegateConfig, networkName, env) ==
    IF delegateConfig.raw \notin {"object", "null"}
    THEN DgReturn(NilResult, Wrap("failed to parse delegate config", Err("json")), <<>>)
    ELSE IF delegateConfig.raw = "null" \/ delegateConfig.type = ""
    THEN DgReturn(NilResult, Err("delegate config missing required 'type' field"), <<>>)
    ELSE IF ~env.cniPath
    THEN DgReturn(NilResult, Err("CNI_PATH environment variable not set"), <<>>)
    ELSE LET delegateConfigWithName == Marshal([Unmarshal(delegateConfig) EXCEPT !.name = networkName]) IN
         IF env.delegateOK
         THEN DgReturn(env.result, NoError,
                       <<Call("exec", command, delegateConfigWithName, "ok")>>)
         ELSE DgReturn(NilResult,
                       Wrap("delegate plugin failed", ErrArgs("exec", <<delegateConfig.type>>)),
                       <<Call("exec", command, delegateConfigWithName, "error"),
                         Call("exec", command, delegateConfigWithName, "error")>>)

Delegate_PathBeforeType(command, delegateConfig, networkName, env) ==
    IF delegateConfig.raw \notin {"object", "null"}
    THEN DgReturn(NilResult, Wrap("failed to parse delegate config", Err("json")), <<>>)
    ELSE IF ~env.cniPath
    THEN DgReturn(NilResult, Err("CNI_PATH environment variable not set"), <<>>)
    ELSE IF delegateConfig.raw = "null" \/ delegateConfig.type = ""
    THEN DgReturn(NilResult, Err("delegate config missing required 'type' field"), <<>>)
    ELSE LET delegateConfigWithName == Marshal([Unmarshal(delegateConfig) EXCEPT !.name = networkName]) IN
         IF env.delegateOK
         THEN DgReturn(env.result, NoError,
                       <<Call("exec", command, delegateConfigWithName, "ok")>>)
         ELSE DgReturn(NilResult,
                       Wrap("delegate plugin failed", ErrArgs("exec", <<delegateConfig.type>>)),
                       <<Call("exec", command, delegateConfigWithName, "error")>>)

\* The checks and the invocation shared by the three operations; command is
\* the CNI command the chained binary runs under.
Delegate(command, delegateConfig, networkName, env) ==
    IF delegateConfig.raw \notin {"object", "null"}
    THEN DgReturn(NilResult, Wrap("failed to parse delegate config", Err("json")), <<>>)
    ELSE IF delegateConfig.raw = "null" \/ delegateConfig.type = ""
    THEN DgReturn(NilResult, Err("delegate config missing required 'type' field"), <<>>)
    ELSE IF ~env.cniPath
    THEN DgReturn(NilResult, Err("CNI_PATH environment variable not set"), <<>>)
    ELSE LET delegateConfigWithName == Marshal([Unmarshal(delegateConfig) EXCEPT !.name = networkName]) IN
         IF env.delegateOK
         THEN DgReturn(env.result, NoError,
                       <<Call("exec", command, delegateConfigWithName, "ok")>>)
         ELSE DgReturn(NilResult,
                       Wrap("delegate plugin failed", ErrArgs("exec", <<delegateConfig.type>>)),
                       <<Call("exec", command, delegateConfigWithName, "error")>>)

DelegateAdd(delegateConfig, networkName, env) ==
    Delegate("ADD", delegateConfig, networkName, env)

\* DelegateDel and DelegateCheck return the error only.
DelegateDel(delegateConfig, networkName, env) ==
    Delegate("DEL", delegateConfig, networkName, [env EXCEPT !.result = NilResult])

DelegateCheck(delegateConfig, networkName, env) ==
    Delegate("CHECK", delegateConfig, networkName, [env EXCEPT !.result = NilResult])

-----------------------------------------------------------------------------
(* Command handlers (package main).  A handler gets the stdin blob, the     *)
(* CNI_ARGS text, the behaviour env of its collaborators during this        *)
(* invocation, the metadata store st and the rule table tbl; it returns its *)
(* error, what it printed, the rule table it leaves, the external calls it  *)
(* made in order, and the result the delegate handed to it.                 *)

NoOutput == [result |-> NilResult, version |-> ""]

\* types.PrintResult(result, version): the result is handed to the printer
\* together with the configuration's cniVersion.
PrintResult(result, version) == [result |-> result, version |-> version]

HReturn(err, out, tbl, calls, delegateResult) ==
    [err |-> err, out |-> out, table |-> tbl, calls |-> calls,
     delegateResult |-> delegateResult]

cmdAddFwmark_ClientFatal(pluginConf, podName, podNamespace, delegateResult, podIP, env, st, tbl, calls) ==
    LET client == NewClient(pluginConf.Kubeconfig, env.client)
        fw     == GetFwmark(st, podName, podNamespace, pluginConf.AnnotationKey, env.api)
        add    == AddMarkRule(podIP, fw.fwmark, env.fault, tbl)
        out    == PrintResult(delegateResult, pluginConf.CNIVersion)
    IN
    IF IsError(client.err)
    THEN HReturn(Wrap("failed to create K8s client", client.err), NoOutput, tbl,
                 calls \o client.calls, delegateResult)
    ELSE IF IsError(fw.err)
    THEN HReturn(NoError, out, tbl, calls \o client.calls \o fw.calls, delegateResult)
    ELSE IF fw.fwmark # ""
    THEN HReturn(NoError, out, add.table,
                 calls \o client.calls \o fw.calls \o add.calls, delegateResult)
    ELSE HReturn(NoError, out, tbl, calls \o client.calls \o fw.calls, delegateResult)

cmdAddFwmark_RuleFatal(pluginConf, podName, podNamespace, delegateResult, podIP, env, st, tbl, calls) ==
    LET client == NewClient(pluginConf.Kubeconfig, env.client)
        fw     == GetFwmark(st, podName, podNamespace, pluginConf.AnnotationKey, env.api)
        add    == AddMarkRule(podIP, fw.fwmark, env.fault, tbl)
        out    == PrintResult(delegateResult, pluginConf.CNIVersion)
    IN
    IF IsError(client.err)
    THEN HReturn(NoError, out, tbl, calls \o client.calls, delegateResult)
    ELSE IF IsError(fw.err)
    THEN HReturn(NoError, out, tbl, calls \o client.calls \o fw.calls, delegateResult)
    ELSE IF fw.fwmark # "" /\ IsError(add.err)
    THEN HReturn(Wrap("failed to add iptables rule", add.err), NoOutput, add.table,
                 calls \o client.calls \o fw.calls \o add.calls, delegateResult)
    ELSE IF fw.fwmark # ""
    THEN HReturn(NoError, out, add.table,
                 calls \o client.calls \o fw.calls \o add.calls, delegateResult)
    ELSE HReturn(NoError, out, tbl, calls \o client.calls \o fw.calls, delegateResult)

cmdAddFwmark_DefaultsTag(pluginConf, podName, podNamespace, delegateResult, podIP, env, st, tbl, calls) ==
    LET client == NewClient(pluginConf.Kubeconfig, env.client)
        fw     == GetFwmark(st, podName, podNamespace, pluginConf.AnnotationKey, env.api)
        add    == AddMarkRule(podIP, IF fw.fwmark = "" THEN FwmarkTenantA ELSE fw.fwmark,
                              env.fault, tbl)
        out    == PrintResult(delegateResult, pluginConf.CNIVersion)
    IN
    IF IsError(client.err)
    THEN HReturn(NoError, out, tbl, calls \o client.calls, delegateResult)
    ELSE IF IsError(fw.err)
    THEN HReturn(NoError, out, tbl, calls \o client.calls \o fw.calls, delegateResult)
    ELSE HReturn(NoError, out, add.table,
                 calls \o client.calls \o fw.calls \o add.calls, delegateResult)

\* cmdAdd from step 5 on: client, annotation, rule, and the result printed.
cmdAddFwmark(pluginConf, podName, podNamespace, delegateResult, podIP, env, st, tbl, calls) ==
    LET client == NewClient(pluginConf.Kubeconfig, env.client)
        fw     == GetFwmark(st, podName, podNamespace, pluginConf.AnnotationKey, env.api)
        add    == AddMarkRule(podIP, fw.fwmark, env.fault, tbl)
        out    == PrintResult(delegateResult, pluginConf.CNIVersion)
    IN
    IF IsError(client.err)
    THEN HReturn(NoError, out, tbl, calls \o client.calls, delegateResult)
    ELSE IF IsError(fw.err)
    THEN HReturn(NoError, out, tbl, calls \o client.calls \o fw.calls, delegateResult)
    ELSE IF fw.fwmark # ""
    THEN HReturn(NoError, out, add.table,
                 calls \o client.calls \o fw.calls \o add.calls, delegateResult)
    ELSE HReturn(NoError, out, tbl, calls \o client.calls \o fw.calls, delegateResult)

cmdAdd_ExtractionNotFatal(stdin, args, env, st, tbl) ==
    LET parsed     == ParseConfig(stdin)
        pluginConf == parsed.conf
        ids        == parseCNIArgs(args)
        dg         == DelegateAdd(pluginConf.Delegate, pluginConf.Name, env)
        ex         == ExtractPodIP(dg.result)
    IN
    IF IsError(parsed.err)
    THEN HReturn(Wrap("failed to parse config", parsed.err), NoOutput, tbl, <<>>, NilResult)
    ELSE IF IsError(ids.err)
    THEN HReturn(Wrap("failed to parse CNI_ARGS", ids.err), NoOutput, tbl, <<>>, NilResult)
    ELSE IF IsError(dg.err)
    THEN HReturn(Wrap("delegation failed", dg.err), NoOutput, tbl, dg.calls, NilResult)
    ELSE cmdAddFwmark(pluginConf, ids.podName, ids.podNamespace, dg.result, ex.ip,
                      env, st, tbl, dg.calls)

cmdAdd(stdin, args, env, st, tbl) ==
    LET parsed     == ParseConfig(stdin)
        pluginConf == parsed.conf
        ids        == parseCNIArgs(args)
        dg         == DelegateAdd(pluginConf.Delegate, pluginConf.Name, env)
        ex         == ExtractPodIP(dg.result)
    IN
    IF IsError(parsed.err)
    THEN HReturn(Wrap("failed to parse config", parsed.err), NoOutput, tbl, <<>>, NilResult)
    ELSE IF IsError(ids.err)
    THEN HReturn(Wrap("failed to parse CNI_ARGS", ids.err), NoOutput, tbl, <<>>, NilResult)
    ELSE IF IsError(dg.err)
    THEN HReturn(Wrap("delegation failed", dg.err), NoOutput, tbl, dg.calls, NilResult)
    ELSE IF IsError(ex.err)
    THEN HReturn(Wrap("failed to extract pod IP from delegate result", ex.err),
                 NoOutput, tbl, dg.calls, dg.result)
    ELSE cmdAddFwmark(pluginConf, ids.podName, ids.podNamespace, dg.result, ex.ip,
                      env, st, tbl, dg.calls)

\* The loop of cleanupIptablesRules over the allow-list, in the order the map
\* iteration yields it; an error of DeleteMarkRule is logged.
RECURSIVE CleanupLoop(_, _, _, _, _)
CleanupLoop(order, podIP, faults, tbl, calls) ==
    IF order = <<>> THEN [table |-> tbl, calls |-> calls]
    ELSE LET del == DeleteMarkRule(podIP, Head(order), faults[Head(order)], tbl) IN
         CleanupLoop(Tail(order), podIP, faults, del.table, calls \o del.calls)

cleanupIptablesRules(podIP, env, tbl) ==
    CleanupLoop(env.order, podIP, env.faults, tbl, <<>>)

\* cmdDel after the delegate's DEL: the cleanup of the rules.
cmdDelCleanup(pluginConf, podName, podNamespace, podIP, env, st, tbl, calls) ==
    LET client == NewClient(pluginConf.Kubeconfig, env.client)
        fw     == GetFwmark(st, podName, podNamespace, pluginConf.AnnotationKey, env.api)
        del    == DeleteMarkRule(podIP, fw.fwmark, env.faults[fw.fwmark], tbl)
        sweep  == cleanupIptablesRules(podIP, env, tbl)
    IN
    IF podIP # "" /\ podName # <<>> /\ podNamespace # <<>>
    THEN IF IsError(client.err)
         THEN HReturn(NoError, NoOutput, tbl, calls \o client.calls, NilResult)
         ELSE IF IsError(fw.err)
         THEN HReturn(NoError, NoOutput, sweep.table,
                      calls \o client.calls \o fw.calls \o sweep.calls, NilResult)
         ELSE IF fw.fwmark # ""
         THEN HReturn(NoError, NoOutput, del.table,
                      calls \o client.calls \o fw.calls \o del.calls, NilResult)
         ELSE HReturn(NoError, NoOutput, tbl, calls \o client.calls \o fw.calls, NilResult)
    ELSE IF podIP # ""
    THEN HReturn(NoError, NoOutput, sweep.table, calls \o sweep.calls, NilResult)
    ELSE HReturn(NoError, NoOutput, tbl, calls, NilResult)

PrevResultIP_FromRawBlob(pluginConf) ==
    IF pluginConf.RawPrevResult # NilResult
    THEN ExtractPodIP(pluginConf.RawPrevResult)
    ELSE [ip |-> "", err |-> NoError]

\* The address cmdDel and cmdCheck take from pluginConf.PrevResult.
PrevResultIP(pluginConf) ==
    IF pluginConf.PrevResult # NilResult
    THEN ExtractPodIP(pluginConf.PrevResult)
    ELSE [ip |-> "", err |-> NoError]

cmdDel_DelegateFatal(stdin, args, env, st, tbl) ==
    LET parsed     == ParseConfig(stdin)
        pluginConf == parsed.conf
        ids        == parseCNIArgs(args)
        podIP      == PrevResultIP(pluginConf).ip
        dg         == DelegateDel(pluginConf.Delegate, pluginConf.Name, env)
    IN
    IF IsError(parsed.err)
    THEN HReturn(NoError, NoOutput, tbl, <<>>, NilResult)
    ELSE IF IsError(dg.err)
    THEN HReturn(Wrap("delegate DEL failed", dg.err), NoOutput, tbl, dg.calls, NilResult)
    ELSE cmdDelCleanup(pluginConf, ids.podName, ids.podNamespace, podIP,
                       env, st, tbl, dg.calls)

cmdDel_SkipsDelegateWithoutIdentity(stdin, args, env, st, tbl) ==
    LET parsed     == ParseConfig(stdin)
        pluginConf == parsed.conf
        ids        == parseCNIArgs(args)
        podIP      == PrevResultIP(pluginConf).ip
        dg         == DelegateDel(pluginConf.Delegate, pluginConf.Name, env)
    IN
    IF IsError(parsed.err)
    THEN HReturn(NoError, NoOutput, tbl, <<>>, NilResult)
    ELSE cmdDelCleanup(pluginConf, ids.podName, ids.podNamespace, podIP,
                       env, st, tbl, IF IsError(ids.err) THEN <<>> ELSE dg.calls)

cmdDel(stdin, args, env, st, tbl) ==
    LET parsed     == ParseConfig(stdin)
        pluginConf == parsed.conf
        ids        == parseCNIArgs(args)
        podIP      == PrevResultIP(pluginConf).ip
        dg         == DelegateDel(pluginConf.Delegate, pluginConf.Name, env)
    IN
    IF IsError(parsed.err)
    THEN HReturn(NoError, NoOutput, tbl, <<>>, NilResult)
    ELSE cmdDelCleanup(pluginConf, ids.podName, ids.podNamespace, podIP,
                       env, st, tbl, dg.calls)

\* cmdCheck after the identity is known: previous result, annotation, rule.
cmdCheckRule(pluginConf, podName, podNamespace, env, st, tbl, calls) ==
    LET ex     == PrevResultIP(pluginConf)
        podIP  == ex.ip
        client == NewClient(pluginConf.Kubeconfig, env.client)
        fw     == GetFwmark(st, podName, podNamespace, pluginConf.AnnotationKey, env.api)
        q      == RuleExists(podIP, fw.fwmark, env.fault, tbl)
    IN
    IF pluginConf.PrevResult = NilResult \/ IsError(ex.err)
    THEN HReturn(NoError, NoOutput, tbl, calls, NilResult)
    ELSE IF IsError(client.err)
    THEN HReturn(NoError, NoOutput, tbl, calls \o client.calls, NilResult)
    ELSE IF IsError(fw.err)
    THEN HReturn(NoError, NoOutput, tbl, calls \o client.calls \o fw.calls, NilResult)
    ELSE IF fw.fwmark = ""
    THEN HReturn(NoError, NoOutput, tbl, calls \o client.calls \o fw.calls, NilResult)
    ELSE IF IsError(q.err)
    THEN HReturn(NoError, NoOutput, tbl,
                 calls \o client.calls \o fw.calls \o q.calls, NilResult)
    ELSE IF ~q.exists
    THEN HReturn(ErrArgs("configuration drift detected",
                         <<fw.fwmark, podNamespace, podName, podIP>>),
                 NoOutput, tbl, calls \o client.calls \o fw.calls \o q.calls, NilResult)
    ELSE HReturn(NoError, NoOutput, tbl,
                 calls \o client.calls \o fw.calls \o q.calls, NilResult)

cmdCheck_ArgsFatal(stdin, args, env, st, tbl) ==
    LET parsed     == ParseConfig(stdin)
        pluginConf == parsed.conf
        dg         == DelegateCheck(pluginConf.Delegate, pluginConf.Name, env)
        ids        == parseCNIArgs(args)
    IN
    IF IsError(parsed.err)
    THEN HReturn(Wrap("failed to parse config", parsed.err), NoOutput, tbl, <<>>, NilResult)
    ELSE IF IsError(dg.err)
    THEN HReturn(Wrap("delegate CHECK failed", dg.err), NoOutput, tbl, dg.calls, NilResult)
    ELSE IF IsError(ids.err)
    THEN HReturn(Wrap("failed to parse CNI_ARGS", ids.err), NoOutput, tbl, dg.calls,
                 NilResult)
    ELSE cmdCheckRule(pluginConf, ids.podName, ids.podNamespace, env, st, tbl, dg.calls)

cmdCheck(stdin, args, env, st, tbl) ==
    LET parsed     == ParseConfig(stdin)
        pluginConf == parsed.conf
        dg         == DelegateCheck(pluginConf.Delegate, pluginConf.Name, env)
        ids        == parseCNIArgs(args)
    IN
    IF IsError(parsed.err)
    THEN HReturn(Wrap("failed to parse config", parsed.err), NoOutput, tbl, <<>>, NilResult)
    ELSE IF IsError(dg.err)
    THEN HReturn(Wrap("delegate CHECK failed", dg.err), NoOutput, tbl, dg.calls, NilResult)
    ELSE IF IsError(ids.err)
    THEN HReturn(NoError, NoOutput, tbl, dg.calls, NilResult)
    ELSE cmdCheckRule(pluginConf, ids.podName, ids.podNamespace, env, st, tbl, dg.calls)

-----------------------------------------------------------------------------
(* Inputs and collaborator behaviour of one invocation.                     *)

GoodPath == <<"/", "e", "t", "c", "/", "k">>

PtpDelegate == [raw |-> "object", type |-> "ptp", name |-> "", ipam |-> "host-local", number |-> "1500"]

ValidStdin ==
    [json |-> TRUE, cniVersion |-> "1.0.0", name |-> "tenant-routing",
     kubeconfig |-> GoodPath, annotationKey |-> "", delegate |-> PtpDelegate,
     prevResult |-> NilResult]

\* Configuration blobs without a previous result, as the runtime passes on ADD.
AddStdins ==
    {ValidStdin,
     [ValidStdin EXCEPT !.json = FALSE],
     [ValidStdin EXCEPT !.delegate = [raw |-> "absent", type |-> "", name |-> "", ipam |-> "", number |-> ""]],
     [ValidStdin EXCEPT !.kubeconfig = <<>>],
     [ValidStdin EXCEPT !.kubeconfig = <<"e", "t", "c", "/", "k">>],
     [ValidStdin EXCEPT !.kubeconfig = <<"/", "e", "/", ".", ".", "/", "k">>],
     [ValidStdin EXCEPT !.annotationKey = "custom/fwmark"],
     [ValidStdin EXCEPT !.cniVersion = "0.4.0"],
     [ValidStdin EXCEPT !.delegate = [raw |-> "object", type |-> "", name |-> "", ipam |-> "", number |-> ""]],
     [ValidStdin EXCEPT !.delegate = [raw |-> "null", type |-> "", name |-> "", ipam |-> "", number |-> ""]],
     [ValidStdin EXCEPT !.delegate = [raw |-> "array", type |-> "", name |-> "", ipam |-> "", number |-> ""]],
     [ValidStdin EXCEPT !.delegate = [PtpDelegate EXCEPT !.name = "inner"]]}

\* What a delegate answers on ADD, and what the runtime hands back as the
\* previous result on DEL and CHECK.
DelegateResults ==
    {[shape |-> "100", ips |-> <<"10.200.1.5">>],
     [shape |-> "040", ips |-> <<"2001:db8::1", "10.200.1.6">>],
     [shape |-> "100", ips |-> <<"10.200.1.6", "10.200.1.5">>],
     [shape |-> "100", ips |-> <<"2001:db8::1">>],
     [shape |-> "040", ips |-> <<>>],
     [shape |-> "020", ips |-> <<"10.200.1.5">>]}

Stdins == AddStdins \cup {[ValidStdin EXCEPT !.prevResult = r] : r \in DelegateResults}

ArgStrings ==
    {<<>>,
     <<"K8S_POD_NAME", "=", "web">>,
     <<"K8S_POD_NAME", "=", ";", "K8S_POD_NAMESPACE", "=", "production">>,
     <<"K8S_POD_NAME", "=", "web", ";", "K8S_POD_NAMESPACE", "=", "production">>,
     <<"K8S_POD_NAME", "=", "a", "=", "b", ";", "K8S_POD_NAMESPACE", "=", "production">>}

\* Every collaborator works.
WorkingEnv ==
    [cniPath    |-> TRUE,
     delegateOK |-> TRUE,
     result     |-> [shape |-> "100", ips |-> <<"10.200.1.5">>],
     client     |-> TRUE,
     api        |-> [pod |-> "ok", ns |-> "ok"],
     fault      |-> "none",
     faults     |-> [m \in ValidFwmarkValues |-> "none"],
     order      |-> <<"0x10", "0x20">>]

DelegateFailures(e) == {[e EXCEPT !.cniPath = FALSE], [e EXCEPT !.delegateOK = FALSE]}

StoreFailures(e) ==
    {[e EXCEPT !.client = FALSE], [e EXCEPT !.api.pod = "error"],
     [e EXCEPT !.api.ns = "error"]}

\* Collaborator behaviours of an ADD; a collaborator the handler returns
\* before reaching behaves as in WorkingEnv.
AddEnvs(stdin, args) ==
    IF \/ IsError(ParseConfig(stdin).err)
       \/ IsError(parseCNIArgs(args).err)
       \/ stdin.delegate.type = ""
    THEN {WorkingEnv}
    ELSE DelegateFailures(WorkingEnv) \cup
         UNION {LET e == [WorkingEnv EXCEPT !.result = r] IN
                IF IsError(ExtractPodIP(r).err) THEN {e}
                ELSE StoreFailures(e) \cup {[e EXCEPT !.fault = f] : f \in IptFaults}
                : r \in DelegateResults}

\* Collaborator behaviours of a DEL: the delegate; when the blob carries a
\* previous result with an address, the store; and, when the handler has an
\* address, each delete of the rules.
DelEnvs(stdin) ==
    IF IsError(ParseConfig(stdin).err) THEN {WorkingEnv}
    ELSE UNION {{e} \cup
                (IF IsError(ExtractPodIP(stdin.prevResult).err) THEN {}
                 ELSE StoreFailures(e)) \cup
                (IF PrevResultIP(ParseConfig(stdin).conf).ip = "" THEN {}
                 ELSE {[e EXCEPT !.faults = fs, !.order = o] :
                          fs \in [ValidFwmarkValues -> IptFaults],
                          o \in {<<"0x10", "0x20">>, <<"0x20", "0x10">>}})
                : e \in {WorkingEnv} \cup DelegateFailures(WorkingEnv)}

\* Collaborator behaviours of a CHECK.
CheckEnvs(stdin) ==
    IF IsError(ParseConfig(stdin).err) THEN {WorkingEnv}
    ELSE DelegateFailures(WorkingEnv) \cup
         (IF PrevResultIP(ParseConfig(stdin).conf).ip = "" THEN {WorkingEnv}
          ELSE StoreFailures(WorkingEnv) \cup
               {[WorkingEnv EXCEPT !.fault = f] : f \in {"none", "init", "exists"}})

\* The states of the pod object and of its namespace object.
PodObjects ==
    {Gone, Object(NoAnnotations),
     Object(Annotated(DefaultAnnotationKey, "0x10")),
     Object(Annotated(DefaultAnnotationKey, "0x20"))}

NsObjects ==
    {Object(NoAnnotations),
     Object(Annotated(DefaultAnnotationKey, "0x20")),
     Object(Annotated(DefaultAnnotationKey, "0x30"))}

-----------------------------------------------------------------------------
(* The state machine: invocations run one after the other on the host.      *)

Idle ==
    [cmd |-> "none", stdin |-> ValidStdin, args |-> <<>>, env |-> WorkingEnv,
     err |-> NoError, out |-> NoOutput, calls |-> <<>>, delegateResult |-> NilResult,
     exists |-> FALSE]

Returned(cmd, stdin, args, env, r) ==
    [cmd |-> cmd, stdin |-> stdin, args |-> args, env |-> env,
     err |-> r.err, out |-> r.out, calls |-> r.calls,
     delegateResult |-> r.delegateResult, exists |-> FALSE]

\* No manager call is in progress.
NoneRunning == <<>>

Init ==
    /\ table = EmptyTable
    /\ store = [pod |-> Gone, ns |-> Object(NoAnnotations)]
    /\ last = Idle
    /\ running = NoneRunning

\* CNI ADD
Add ==
    /\ last.cmd = "none"
    /\ \E stdin \in AddStdins, args \in ArgStrings :
         \E env \in AddEnvs(stdin, args) :
            LET r == cmdAdd(stdin, args, env, store, table) IN
            /\ table' = r.table
            /\ last' = Returned("ADD", stdin, args, env, r)
    /\ UNCHANGED <<store, running>>

\* CNI DEL
Del ==
    /\ last.cmd = "none"
    /\ \E stdin \in Stdins, args \in ArgStrings :
         \E env \in DelEnvs(stdin) :
            LET r == cmdDel(stdin, args, env, store, table) IN
            /\ table' = r.table
            /\ last' = Returned("DEL", stdin, args, env, r)
    /\ UNCHANGED <<store, running>>

\* CNI CHECK
Check ==
    /\ last.cmd = "none"
    /\ \E stdin \in Stdins, args \in ArgStrings :
         \E env \in CheckEnvs(stdin) :
            LET r == cmdCheck(stdin, args, env, store, table) IN
            /\ table' = r.table
            /\ last' = Returned("CHECK", stdin, args, env, r)
    /\ UNCHANGED <<store, running>>

\* The process of the invocation exits; nothing of it is kept.
Exit ==
    /\ last.cmd # "none"
    /\ last' = Idle
    /\ UNCHANGED <<table, store, running>>

\* Between invocations the pod and namespace objects are created, annotated
\* or deleted by the cluster's users.
Annotate ==
    /\ last.cmd = "none"
    /\ \E pod \in PodObjects, ns \in NsObjects :
         /\ store' = [pod |-> pod, ns |-> ns]
         /\ store' # store
    /\ UNCHANGED <<table, last, running>>

Next == Add \/ Del \/ Check \/ Exit \/ Annotate

Spec == Init /\ [][Next]_vars

-----------------------------------------------------------------------------
(* The mark-rule manager and the cleanup sweep called directly, one call    *)
(* after the other, as the package's callers and tests do.                  *)

RuleCall(cmd, podIP, fwmark, env, r, exists) ==
    [cmd |-> cmd, stdin |-> ValidStdin, args |-> <<podIP, fwmark>>, env |-> env,
     err |-> r.err, out |-> NoOutput, calls |-> r.calls,
     delegateResult |-> NilResult, exists |-> exists]

\* The rule tool's behaviours that a call with these inputs can meet.
FaultsFor(podIP, fwmark) ==
    IF IsError(ValidateRuleInput(podIP, fwmark)) THEN {"none"} ELSE IptFaults

MgrAdd ==
    /\ last.cmd = "none"
    /\ \E podIP \in IPStrings, fwmark \in MarkStrings :
         \E fault \in FaultsFor(podIP, fwmark) :
            LET r == AddMarkRule(podIP, fwmark, fault, table) IN
            /\ table' = r.table
            /\ last' = RuleCall("AddMarkRule", podIP, fwmark,
                                [WorkingEnv EXCEPT !.fault = fault], r, FALSE)
    /\ UNCHANGED <<store, running>>

MgrDelete ==
    /\ last.cmd = "none"
    /\ \E podIP \in IPStrings, fwmark \in MarkStrings :
         \E fault \in FaultsFor(podIP, fwmark) :
            LET r == DeleteMarkRule(podIP, fwmark, fault, table) IN
            /\ table' = r.table
            /\ last' = RuleCall("DeleteMarkRule", podIP, fwmark,
                                [WorkingEnv EXCEPT !.fault = fault], r, FALSE)
    /\ UNCHANGED <<store, running>>

MgrExists ==
    /\ last.cmd = "none"
    /\ \E podIP \in IPStrings, fwmark \in MarkStrings :
         \E fault \in FaultsFor(podIP, fwmark) \ {"modify"} :
            LET r == RuleExists(podIP, fwmark, fault, table) IN
            /\ table' = r.table
            /\ last' = RuleCall("RuleExists", podIP, fwmark,
                                [WorkingEnv EXCEPT !.fault = fault], r, r.exists)
    /\ UNCHANGED <<store, running>>

Sweep ==
    /\ last.cmd = "none"
    /\ \E podIP \in IPStrings :
         \E fs \in [ValidFwmarkValues -> FaultsFor(podIP, FwmarkTenantA)],
            o \in {<<"0x10", "0x20">>, <<"0x20", "0x10">>} :
            LET env == [WorkingEnv EXCEPT !.faults = fs, !.order = o]
                r   == cleanupIptablesRules(podIP, env, table)
            IN
            /\ table' = r.table
            /\ last' = RuleCall("cleanupIptablesRules", podIP, "", env,
                                [err |-> NoError, calls |-> r.calls], FALSE)
    /\ UNCHANGED <<store, running>>

NextRules == MgrAdd \/ MgrDelete \/ MgrExists \/ Sweep \/ Exit

SpecRules == Init /\ [][NextRules]_vars

-----------------------------------------------------------------------------
(* The annotation resolver called directly on every state of the pod and of *)
(* its namespace.                                                           *)

\* Whether the object is there, and what it carries under the default key or
\* under another key.
PodStates ==
    {Gone, Object(NoAnnotations),
     Object(Annotated(DefaultAnnotationKey, "0x10")),
     Object(Annotated(DefaultAnnotationKey, "0x20")),
     Object(Annotated(DefaultAnnotationKey, "0x30")),
     Object(Annotated("custom/fwmark", "0x10"))}

NsStates ==
    {Gone, Object(NoAnnotations),
     Object(Annotated(DefaultAnnotationKey, "0x10")),
     Object(Annotated(DefaultAnnotationKey, "0x20")),
     Object(Annotated(DefaultAnnotationKey, "0x30")),
     Object(Annotated("custom/fwmark", "0x20"))}

AnnotationKeys == {DefaultAnnotationKey, "custom/fwmark"}

ApiOutcomes == [pod : {"ok", "error"}, ns : {"ok", "error"}]

ResolveCall(podName, annotationKey, api, r) ==
    [cmd |-> "GetFwmark", stdin |-> ValidStdin, args |-> <<podName, annotationKey>>,
     env |-> [WorkingEnv EXCEPT !.api = api],
     err |-> r.err, out |-> NoOutput, calls |-> r.calls,
     delegateResult |-> NilResult, exists |-> FALSE, fwmark |-> r.fwmark]

Populate ==
    /\ last.cmd = "none"
    /\ \E pod \in PodStates, ns \in NsStates :
         /\ store' = [pod |-> pod, ns |-> ns]
         /\ store' # store
    /\ UNCHANGED <<table, last, running>>

Resolve ==
    /\ last.cmd = "none"
    /\ \E podName \in {PodName, <<"a", "=", "b">>}, key \in AnnotationKeys,
          api \in ApiOutcomes :
         last' = ResolveCall(podName, key, api,
                             GetFwmark(store, podName, PodNamespace, key, api))
    /\ UNCHANGED <<table, store, running>>

NextResolve == Populate \/ Resolve \/ Exit

SpecResolve == Init /\ [][NextResolve]_vars

-----------------------------------------------------------------------------
(* Two manager calls in progress at the same time, as two invocations of    *)
(* the plugin for two pods make them.  Each call is the sequence of the     *)
(* rule tool operations it makes (iptables.New, Exists, then Append or      *)
(* Delete); each operation is atomic and the calls interleave freely.       *)

\* A call in progress: the operation and its arguments, how the rule tool
\* behaves for it, the position in its code, the answer of Exists, the error.
Proc(op, rule, fault) ==
    [op |-> op, podIP |-> rule[1], fwmark |-> rule[2], fault |-> fault,
     pc |-> "NewManager", exists |-> FALSE, err |-> NoError]

Done(p, err) == [p EXCEPT !.pc = "done", !.err = err]

RunStep_DeleteFlushesChain(p, tbl) ==
    LET rule == RuleSpec(p.podIP, p.fwmark) IN
    IF p.pc = "NewManager"
    THEN IF p.fault = "init"
         THEN [proc  |-> Done(p, Wrap("failed to initialize iptables", Err("iptables"))),
               table |-> tbl]
         ELSE [proc |-> [p EXCEPT !.pc = "Exists"], table |-> tbl]
    ELSE IF p.pc = "Exists"
    THEN IF p.fault = "exists"
         THEN [proc  |-> Done(p, Wrap("failed to check if rule exists", Err("iptables"))),
               table |-> tbl]
         ELSE IF IptExists(tbl, rule) = (p.op = "AddMarkRule")
         THEN [proc |-> Done([p EXCEPT !.exists = IptExists(tbl, rule)], NoError),
               table |-> tbl]
         ELSE [proc  |-> [p EXCEPT !.exists = IptExists(tbl, rule), !.pc = "Modify"],
               table |-> tbl]
    ELSE IF p.fault = "modify"
         THEN [proc  |-> Done(p, Wrap(IF p.op = "AddMarkRule" THEN "failed to add mark rule"
                                      ELSE "failed to delete mark rule", Err("iptables"))),
               table |-> tbl]
         ELSE IF p.op = "AddMarkRule"
         THEN [proc |-> Done(p, NoError), table |-> IptAppend(tbl, rule)]
         ELSE [proc |-> Done(p, NoError), table |-> EmptyTable]

\* The next rule tool operation of the call p on the table tbl.
RunStep(p, tbl) ==
    LET rule == RuleSpec(p.podIP, p.fwmark) IN
    IF p.pc = "NewManager"
    THEN IF p.fault = "init"
         THEN [proc  |-> Done(p, Wrap("failed to initialize iptables", Err("iptables"))),
               table |-> tbl]
         ELSE [proc |-> [p EXCEPT !.pc = "Exists"], table |-> tbl]
    ELSE IF p.pc = "Exists"
    THEN IF p.fault = "exists"
         THEN [proc  |-> Done(p, Wrap("failed to check if rule exists", Err("iptables"))),
               table |-> tbl]
         ELSE IF IptExists(tbl, rule) = (p.op = "AddMarkRule")
         THEN [proc |-> Done([p EXCEPT !.exists = IptExists(tbl, rule)], NoError),
               table |-> tbl]
         ELSE [proc  |-> [p EXCEPT !.exists = IptExists(tbl, rule), !.pc = "Modify"],
               table |-> tbl]
    ELSE IF p.fault = "modify" \/ (p.op = "DeleteMarkRule" /\ ~IptExists(tbl, rule))
         THEN [proc  |-> Done(p, Wrap(IF p.op = "AddMarkRule" THEN "failed to add mark rule"
                                      ELSE "failed to delete mark rule", Err("iptables"))),
               table |-> tbl]
         ELSE IF p.op = "AddMarkRule"
         THEN [proc |-> Done(p, NoError), table |-> IptAppend(tbl, rule)]
         ELSE [proc |-> Done(p, NoError), table |-> IptDelete(tbl, rule)]

\* The tables the two calls can start on: each of their two rules and one
\* rule of another pod is there or is not.
StartTables(ra, rb) ==
    LET other == CHOOSE r \in RuleSpecs : r \notin {ra, rb} IN
    {[r \in RuleSpecs |-> IF r = ra THEN x ELSE IF r = rb THEN y
                          ELSE IF r = other THEN z ELSE 0] :
        x \in {0, 1}, y \in {0, 1}, z \in {0, 1}}

\* An AddMarkRule for one pod and a DeleteMarkRule for another start together.
InitConcurrent ==
    /\ store = [pod |-> Gone, ns |-> Object(NoAnnotations)]
    /\ last = Idle
    /\ \E ra \in RuleSpecs, rb \in RuleSpecs, fa \in IptFaults, fb \in IptFaults :
         /\ ra # rb
         /\ table \in StartTables(ra, rb)
         /\ running = [a      |-> Proc("AddMarkRule", ra, fa),
                       b      |-> Proc("DeleteMarkRule", rb, fb),
                       before |-> table,
                       order  |-> <<>>]

StepA ==
    /\ running.a.pc # "done"
    /\ LET r == RunStep(running.a, table) IN
       /\ table' = r.table
       /\ running' = [running EXCEPT !.a = r.proc, !.order = Append(@, "a")]
    /\ UNCHANGED <<store, last>>

StepB ==
    /\ running.b.pc # "done"
    /\ LET r == RunStep(running.b, table) IN
       /\ table' = r.table
       /\ running' = [running EXCEPT !.b = r.proc, !.order = Append(@, "b")]
    /\ UNCHANGED <<store, last>>

NextConcurrent == StepA \/ StepB

SpecConcurrent == InitConcurrent /\ [][NextConcurrent]_vars

-----------------------------------------------------------------------------
(* The result extractor called directly on results of every shape.          *)

\* The longest address list of a result.
MaxIPs == 3

RECURSIVE IPLists(_)
IPLists(n) ==
    IF n = 0 THEN {<<>>}
    ELSE LET shorter == IPLists(n - 1) IN
         shorter \cup {Append(l, ip) : l \in {s \in shorter : Len(s) = n - 1},
                                       ip \in IPv4Addrs \cup IPv6Addrs \cup {NilIP}}

\* A nil result, results of the two supported types, and one of another type.
Results ==
    {NilResult} \cup [shape : {"100", "040", "020"}, ips : IPLists(MaxIPs)]

ExtractCall(result, r) ==
    [cmd |-> "ExtractPodIP", stdin |-> ValidStdin, args |-> <<result>>,
     env |-> WorkingEnv, err |-> r.err, out |-> NoOutput, calls |-> <<>>,
     delegateResult |-> result, exists |-> FALSE, ip |-> r.ip]

Extract ==
    /\ last.cmd = "none"
    /\ \E result \in Results : last' = ExtractCall(result, ExtractPodIP(result))
    /\ UNCHANGED <<table, store, running>>

NextExtract == Extract \/ Exit

SpecExtract == Init /\ [][NextExtract]_vars

-----------------------------------------------------------------------------
(* parseCNIArgs called directly, on argument texts of several pairs.        *)

MaxPairs == 3

\* The pairs an argument text is made of: empty, without "=", with an empty
\* key, an unknown key, a key that only starts like a known one, and the two
\* known keys with an empty value, a plain value and values holding "=".
Segments ==
    {<<>>,
     <<"w">>,
     <<"K8S_POD_NAME">>,
     <<"=", "w">>,
     <<"w", "=", "w">>,
     <<"K8S_POD_NAME", "w", "=", "w">>,
     <<"K8S_POD_NAME", "=">>,
     <<"K8S_POD_NAME", "=", "web">>,
     <<"K8S_POD_NAME", "=", "a", "=", "b">>,
     <<"K8S_POD_NAME", "=", "=">>,
     <<"K8S_POD_NAMESPACE", "=">>,
     <<"K8S_POD_NAMESPACE", "=", "production">>,
     <<"K8S_POD_NAMESPACE", "=", "K8S_POD_NAME", "=", "web">>}

\* The texts of at most n pairs joined by ";".
RECURSIVE ArgTexts(_)
ArgTexts(n) ==
    IF n = 1 THEN Segments
    ELSE LET shorter == ArgTexts(n - 1) IN
         shorter \cup {t \o <<";">> \o s : t \in shorter, s \in Segments}

ParseArgsCall(cniArgs, r) ==
    [cmd |-> "parseCNIArgs", stdin |-> ValidStdin, args |-> cniArgs,
     env |-> WorkingEnv, err |-> r.err, out |-> NoOutput, calls |-> <<>>,
     delegateResult |-> NilResult, exists |-> FALSE,
     podName |-> r.podName, podNamespace |-> r.podNamespace]

ParseArgs ==
    /\ last.cmd = "none"
    /\ \E cniArgs \in ArgTexts(MaxPairs) :
          last' = ParseArgsCall(cniArgs, parseCNIArgs(cniArgs))
    /\ UNCHANGED <<table, store, running>>

NextArgs == ParseArgs \/ Exit

SpecArgs == Init /\ [][NextArgs]_vars

-----------------------------------------------------------------------------
(* ParseConfig called directly, on configuration blobs that combine the      *)
(* faults a blob can have.                                                  *)

\* Credential paths: none, a good one, a relative one, absolute ones with
\* ".." as a component and inside a name, and a relative one with "..".
KubeconfigPaths ==
    {<<>>,
     GoodPath,
     <<"e", "t", "c", "/", "k">>,
     <<"/", "e", "/", ".", ".", "/", "k">>,
     <<"/", "e", "/", "k", ".", ".", "c">>,
     <<".", ".", "/", "k">>}

\* The delegate field: absent, an object with a type, an object without one
\* ({}), null, and an array.
DelegateBlobs ==
    {PtpDelegate} \cup
    {[raw |-> r, type |-> "", name |-> "", ipam |-> "", number |-> ""] :
        r \in {"absent", "object", "null", "array"}}

ConfigBlobs ==
    [json          : BOOLEAN,
     cniVersion    : {"1.0.0", "0.4.0"},
     name          : {"tenant-routing"},
     kubeconfig    : KubeconfigPaths,
     annotationKey : {"", "custom/fwmark"},
     delegate      : DelegateBlobs,
     prevResult    : {NilResult}]

ParseConfigCall(stdin, r) ==
    [cmd |-> "ParseConfig", stdin |-> stdin, args |-> <<>>, env |-> WorkingEnv,
     err |-> r.err, out |-> NoOutput, calls |-> <<>>,
     delegateResult |-> NilResult, exists |-> FALSE, conf |-> r.conf]

Parse ==
    /\ last.cmd = "none"
    /\ \E stdin \in ConfigBlobs : last' = ParseConfigCall(stdin, ParseConfig(stdin))
    /\ UNCHANGED <<table, store, running>>

NextConfig == Parse \/ Exit

SpecConfig == Init /\ [][NextConfig]_vars

-----------------------------------------------------------------------------
(* One invocation at a time, call by call: the handler blocks in each call   *)
(* until the collaborator answers or, where the call runs under a           *)
(* context.WithTimeout, until the deadline passes.                          *)

\* What a call may wait for without end: the chained binary, each of the two
\* lookups in the metadata store, and the rule tool.
Waits == {"exec", "GetPod", "GetNamespace", "tool"}

\* What the handler waits for in a call; NewClient reads a local file.
WaitsFor(op) ==
    CASE op \in {"exec", "GetPod", "GetNamespace"}            -> op
      [] op \in {"iptables.New", "Exists", "Append", "Delete"} -> "tool"
      [] OTHER                                                -> "local"

\* The calls made under a deadline: the chained binary (ExecutionTimeout) and
\* the two lookups of GetFwmark (K8sAPITimeout).  NewManager and the calls on
\* mgr.ipt take no context and no timeout option.
Bounded(op) == op \in {"exec", "GetPod", "GetNamespace"}

\* A bounded call that is never answered returns the error of its deadline.
TimedOut(silent) ==
    [WorkingEnv EXCEPT
        !.delegateOK = "exec" \notin silent,
        !.api = [pod |-> IF "GetPod" \in silent THEN "error" ELSE "ok",
                 ns  |-> IF "GetNamespace" \in silent THEN "error" ELSE "ok"]]

Handler(cmd, stdin, args, env, st, tbl) ==
    CASE cmd = "ADD" -> cmdAdd(stdin, args, env, st, tbl)
      [] cmd = "DEL" -> cmdDel(stdin, args, env, st, tbl)
      [] OTHER       -> cmdCheck(stdin, args, env, st, tbl)

\* The invocation in progress is blocked in its next call.
Blocked == running # NoneRunning /\ running.n < Len(running.run.calls)

\* The call the invocation in progress is blocked in.
Pending == running.run.calls[running.n + 1].op

BlockingStdins(cmd) ==
    IF cmd = "ADD" THEN {ValidStdin}
    ELSE {[ValidStdin EXCEPT !.prevResult = WorkingEnv.result]}

BlockingArgs ==
    {<<>>, <<"K8S_POD_NAME", "=", "web", ";", "K8S_POD_NAMESPACE", "=", "production">>}

\* What is known of an invocation once it returned; expired are the calls
\* that ran into their deadline.
ReturnedFrom(r) ==
    [cmd |-> r.cmd, stdin |-> r.stdin, args |-> r.args, env |-> r.env,
     err |-> r.run.err, out |-> r.run.out, calls |-> r.run.calls,
     delegateResult |-> r.run.delegateResult, exists |-> FALSE,
     expired |-> r.expired]

\* The runtime starts the plugin.  silent is what will never answer this
\* invocation; run is the course the handler takes with such collaborators,
\* the store and the table being left alone while it runs.
Start ==
    /\ last.cmd = "none"
    /\ running = NoneRunning
    /\ \E cmd \in {"ADD", "DEL", "CHECK"}, args \in BlockingArgs,
          silent \in SUBSET Waits :
          \E stdin \in BlockingStdins(cmd) :
             running' = [cmd |-> cmd, stdin |-> stdin, args |-> args,
                         env |-> TimedOut(silent), silent |-> silent,
                         run |-> Handler(cmd, stdin, args, TimedOut(silent), store, table),
                         n |-> 0, expired |-> {}]
    /\ UNCHANGED <<table, store, last>>

\* The collaborator answers the call the handler is blocked in.
Answer ==
    /\ Blocked
    /\ WaitsFor(Pending) \notin running.silent
    /\ running' = [running EXCEPT !.n = @ + 1]
    /\ UNCHANGED <<table, store, last>>

\* No answer comes and the deadline of the call passes: the call returns an
\* error.
Timeout ==
    /\ Blocked
    /\ WaitsFor(Pending) \in running.silent
    /\ Bounded(Pending)
    /\ running' = [running EXCEPT !.n = @ + 1, !.expired = @ \cup {Pending}]
    /\ UNCHANGED <<table, store, last>>

\* Every call has returned: the handler returns to the runtime.
Return ==
    /\ running # NoneRunning
    /\ running.n = Len(running.run.calls)
    /\ table' = running.run.table
    /\ last' = ReturnedFrom(running)
    /\ running' = NoneRunning
    /\ UNCHANGED store

\* The store changes between invocations.
AnnotateIdle == running = NoneRunning /\ Annotate

NextBlocking == Start \/ Answer \/ Timeout \/ Return \/ Exit \/ AnnotateIdle

\* Timers fire, collaborators that are not silent answer, and the handler's
\* own code runs on.
SpecBlocking ==
    /\ Init
    /\ [][NextBlocking]_vars
    /\ WF_vars(Answer)
    /\ WF_vars(Timeout)
    /\ WF_vars(Return)

-----------------------------------------------------------------------------
(* The three delegation operations called directly.                         *)

\* Delegate blobs as a caller may pass them: those of a parsed configuration,
\* one that is not JSON, one that brings a name of its own, and ones with a
\* small and with a large numeric field.
DelegateConfigs ==
    DelegateBlobs \cup
    {[raw |-> "invalid", type |-> "", name |-> "", ipam |-> "", number |-> ""],
     [PtpDelegate EXCEPT !.name = "inner"],
     [PtpDelegate EXCEPT !.number = ""],
     [PtpDelegate EXCEPT !.number = "9007199254740993"],
     [PtpDelegate EXCEPT !.ipam = "", !.name = "inner", !.number = "9007199254740992"]}

NetworkNames == {"tenant-routing", "other"}

\* CNI_PATH set or not, the chained binary succeeding or not.
DelegateEnvs ==
    {[WorkingEnv EXCEPT !.cniPath = p, !.delegateOK = ok] : p, ok \in BOOLEAN}

DelegateCall(cmd, delegateConfig, networkName, env, r) ==
    [cmd |-> cmd, stdin |-> ValidStdin, args |-> <<delegateConfig, networkName>>,
     env |-> env, err |-> r.err, out |-> NoOutput, calls |-> r.calls,
     delegateResult |-> r.result, exists |-> FALSE]

CallDelegateAdd ==
    /\ last.cmd = "none"
    /\ \E delegateConfig \in DelegateConfigs, networkName \in NetworkNames,
          env \in DelegateEnvs :
          last' = DelegateCall("DelegateAdd", delegateConfig, networkName, env,
                               DelegateAdd(delegateConfig, networkName, env))
    /\ UNCHANGED <<table, store, running>>

CallDelegateDel ==
    /\ last.cmd = "none"
    /\ \E delegateConfig \in DelegateConfigs, networkName \in NetworkNames,
          env \in DelegateEnvs :
          last' = DelegateCall("DelegateDel", delegateConfig, networkName, env,
                               DelegateDel(delegateConfig, networkName, env))
    /\ UNCHANGED <<table, store, running>>

CallDelegateCheck ==
    /\ last.cmd = "none"
    /\ \E delegateConfig \in DelegateConfigs, networkName \in NetworkNames,
          env \in DelegateEnvs :
          last' = DelegateCall("DelegateCheck", delegateConfig, networkName, env,
                               DelegateCheck(delegateConfig, networkName, env))
    /\ UNCHANGED <<table, store, running>>

NextDelegate == CallDelegateAdd \/ CallDelegateDel \/ CallDelegateCheck \/ Exit

SpecDelegate == Init /\ [][NextDelegate]_vars

-----------------------------------------------------------------------------
(* Two AddMarkRule calls for the same rulespec, from two invocations that   *)
(* run at the same time, interleaved rule tool operation by operation.      *)

InitSameRule ==
    /\ store = [pod |-> Gone, ns |-> Object(NoAnnotations)]
    /\ last = Idle
    /\ \E r \in RuleSpecs, fa \in IptFaults, fb \in IptFaults :
         /\ table \in StartTables(r, r)
         /\ running = [a      |-> Proc("AddMarkRule", r, fa),
                       b      |-> Proc("AddMarkRule", r, fb),
                       before |-> table,
                       order  |-> <<>>]

SpecSameRule == InitSameRule /\ [][NextConcurrent]_vars

-----------------------------------------------------------------------------
(* Verify and the manager's existence check on tables that earlier calls     *)
(* of the manager have filled.                                              *)

NextVerify == Check \/ MgrExists \/ MgrAdd \/ MgrDelete \/ Annotate \/ Exit

SpecVerify == Init /\ [][NextVerify]_vars

-----------------------------------------------------------------------------
(* Vocabulary of the properties: what the invocation that just returned was *)
(* given and what it did.                                                   *)

ConfigParses(stdin) == ~IsError(ParseConfig(stdin).err)

\* The argument text holds key=value with a non-empty value, as a whole pair.
HasValue(args, key) ==
    \E i \in 1..(Len(args) - 2) :
        /\ args[i] = key
        /\ args[i + 1] = "="
        /\ args[i + 2] # ";"
        /\ (i = 1 \/ args[i - 1] = ";")

MissingIdentity(args) ==
    ~HasValue(args, "K8S_POD_NAME") \/ ~HasValue(args, "K8S_POD_NAMESPACE")

\* The invocation made a call op whose outcome was res.
Called(op, res) ==
    \E i \in DOMAIN last.calls : last.calls[i].op = op /\ last.calls[i].res = res

\* The chained binary was run under this command, with this outcome.
Executed(command, res) ==
    \E i \in DOMAIN last.calls :
        /\ last.calls[i].op = "exec"
        /\ last.calls[i].a = command
        /\ last.calls[i].res = res

\* The number of calls op the invocation made.
CountCalls(op) == Cardinality({i \in DOMAIN last.calls : last.calls[i].op = op})

\* The delegation cannot succeed: unusable blob, no search path, or the
\* chained binary fails.
DelegateFails(stdin, env) ==
    \/ stdin.delegate.raw # "object"
    \/ stdin.delegate.type = ""
    \/ ~env.cniPath
    \/ ~env.delegateOK

\* The identity the argument text carries.
Identity == parseCNIArgs(last.args)

\* The tag the store resolves for that identity under the configured key.
Resolved ==
    GetFwmark(store, Identity.podName, Identity.podNamespace,
              ParseConfig(last.stdin).conf.AnnotationKey, last.env.api)

\* The metadata store is reachable and resolves a tag of the allow-list.
TagResolves ==
    /\ ~MissingIdentity(last.args)
    /\ last.env.client
    /\ ~IsError(Resolved.err)
    /\ Resolved.fwmark # ""

\* The address in the previous result that the stdin blob carries.
PrevAddress == ExtractPodIP(last.stdin.prevResult)

-----------------------------------------------------------------------------
(* Properties of the command handlers, under Spec.                          *)

\* C1: a Create whose configuration parses but whose arguments are empty or
\* lack a non-empty pod name or namespace returns an error and calls neither
\* the delegate nor the metadata store nor the rule tool.
C1_CreateRejectsMissingIdentity ==
    (last.cmd = "ADD" /\ ConfigParses(last.stdin) /\ MissingIdentity(last.args))
        => /\ IsError(last.err)
           /\ last.calls = <<>>
           /\ last.out = NoOutput

C1_Witness ==
    /\ last.cmd = "ADD"
    /\ ConfigParses(last.stdin)
    /\ last.args = <<"K8S_POD_NAME", "=", "web">>
    /\ IsError(last.err)
    /\ last.calls = <<>>

\* C2: Destroy returns success whatever its input and whatever fails on the way.
C2_DestroyNeverFails == last.cmd = "DEL" => ~IsError(last.err)

C2_Witness ==
    /\ last.cmd = "DEL"
    /\ MissingIdentity(last.args)
    /\ last.stdin.prevResult # NilResult
    /\ Executed("DEL", "error")
    /\ ~IsError(last.err)

\* C3: once the delegate's create has succeeded and its result yields an
\* address, Create returns success and prints the delegate's result, whether
\* or not the client, the tag resolution or the rule installation fail.
C3_CreateSurvivesLateFailures ==
    (/\ last.cmd = "ADD"
     /\ Executed("ADD", "ok")
     /\ ~IsError(ExtractPodIP(last.env.result).err))
        => /\ ~IsError(last.err)
           /\ last.out.result = last.env.result

C3_Witness ==
    /\ last.cmd = "ADD"
    /\ Executed("ADD", "ok")
    /\ Called("NewClient", "error")
    /\ ~IsError(last.err)
    /\ last.out.result = last.env.result
    /\ last.out.result # NilResult

\* C4: after a Create in which the delegate's result yields the address A, the
\* tag resolves to T and the rule tool works, the table holds exactly one rule
\* (A, T), also when the rule was there before, and the delegate's result was
\* printed.
C4_CreateInstallsExactlyOneRule ==
    (/\ last.cmd = "ADD"
     /\ Executed("ADD", "ok")
     /\ ~IsError(ExtractPodIP(last.env.result).err)
     /\ TagResolves
     /\ last.env.fault = "none")
        => /\ table[RuleSpec(ExtractPodIP(last.env.result).ip, Resolved.fwmark)] = 1
           /\ ~IsError(last.err)
           /\ last.out.result = last.env.result

C4_Witness ==
    /\ last.cmd = "ADD"
    /\ TagResolves
    /\ last.env.result.ips = <<"10.200.1.6", "10.200.1.5">>
    /\ Called("Exists", "true")
    /\ CountCalls("Append") = 0
    /\ table[RuleSpec("10.200.1.6", Resolved.fwmark)] = 1

\* The situation in which Verify has to report drift: the blob carries a
\* previous result with an address, the identity is complete, the delegate's
\* verify passes, the tag resolves, the rule tool answers, and the rule is absent.
DriftSituation ==
    /\ last.cmd = "CHECK"
    /\ ConfigParses(last.stdin)
    /\ ~DelegateFails(last.stdin, last.env)
    /\ ~IsError(PrevAddress.err)
    /\ TagResolves
    /\ last.env.fault = "none"
    /\ table[RuleSpec(PrevAddress.ip, Resolved.fwmark)] = 0

\* C5: in the drift situation Verify fails with the drift error naming the
\* tag, the namespace, the pod and the address.
C5_VerifyReportsDrift ==
    DriftSituation
        => /\ last.err.chain = <<"configuration drift detected">>
           /\ last.err.args = <<Resolved.fwmark, Identity.podNamespace,
                                Identity.podName, PrevAddress.ip>>

\* C6: Verify fails exactly when the configuration does not parse, the
\* delegate's verify fails, or the drift situation holds.
C6_VerifyFailsInExactlyThreeCases ==
    last.cmd = "CHECK"
        => (IsError(last.err) <=>
               \/ ~ConfigParses(last.stdin)
               \/ DelegateFails(last.stdin, last.env)
               \/ DriftSituation)

C9_DestroyRemovesTheRule ==
    (/\ last.cmd = "DEL"
     /\ ConfigParses(last.stdin)
     /\ ~IsError(PrevAddress.err)
     /\ TagResolves
     /\ \A m \in ValidFwmarkValues : last.env.faults[m] = "none")
        => table[RuleSpec(PrevAddress.ip, Resolved.fwmark)] = 0

\* C10: a Destroy that knows the address and the identity but cannot resolve
\* the tag attempts a Delete for every value of the allow-list.
C10_DestroySweepsWhenTagUnknown ==
    (/\ last.cmd = "DEL"
     /\ ConfigParses(last.stdin)
     /\ ~IsError(PrevAddress.err)
     /\ ~MissingIdentity(last.args)
     /\ last.env.client
     /\ IsError(Resolved.err))
        => CountCalls("iptables.New") = Cardinality(ValidFwmarkValues)

\* C11: a Destroy that knows the address from the previous result but not the
\* pod identity attempts a Delete for every value of the allow-list and does
\* not consult the metadata store.
C11_DestroySweepsWithoutIdentity ==
    (/\ last.cmd = "DEL"
     /\ ConfigParses(last.stdin)
     /\ ~IsError(PrevAddress.err)
     /\ MissingIdentity(last.args))
        => /\ CountCalls("iptables.New") = Cardinality(ValidFwmarkValues)
           /\ CountCalls("NewClient") = 0
           /\ CountCalls("GetPod") = 0

\* The delegate blob names a chained binary and the search path is set, so
\* the delegation reaches the chained binary.
DelegateRunnable(stdin, env) ==
    stdin.delegate.raw = "object" /\ stdin.delegate.type # "" /\ env.cniPath

\* The calls other than the run of the chained binary.
CleanupCalls(calls) == SelectSeq(calls, LAMBDA c : c.op # "exec")

\* C12 as stated: every Destroy runs the delegate's destroy, whatever the
\* outcome of the configuration parsing.
C12_DestroyAlwaysDelegates ==
    (last.cmd = "DEL" /\ DelegateRunnable(last.stdin, last.env))
        => CountCalls("exec") = 1

\* C12 as the handler has it: a Destroy whose configuration parses runs the
\* delegate's destroy first, whatever the arguments and the previous result
\* are, and what it does afterwards is what it does after a delegate that
\* succeeded; a Destroy whose configuration does not parse returns success
\* without any call.
C12_DestroyDelegatesOnceConfigured ==
    [][(last'.cmd = "DEL" /\ last.cmd = "none") =>
         LET ok   == [last'.env EXCEPT !.cniPath = TRUE, !.delegateOK = TRUE]
             same == cmdDel(last'.stdin, last'.args, ok, store, table)
         IN
         /\ ~ConfigParses(last'.stdin) =>
               last'.calls = <<>> /\ ~IsError(last'.err)
         /\ (ConfigParses(last'.stdin) /\ DelegateRunnable(last'.stdin, last'.env)) =>
               /\ Len(last'.calls) >= 1
               /\ last'.calls[1].op = "exec"
               /\ last'.calls[1].a = "DEL"
               /\ Len(last'.calls) = 1 + Len(CleanupCalls(last'.calls))
         /\ ConfigParses(last'.stdin) =>
               /\ CleanupCalls(last'.calls) = CleanupCalls(same.calls)
               /\ table' = same.table
               /\ ~IsError(last'.err)
      ]_vars

C12_Witness ==
    /\ last.cmd = "DEL"
    /\ ConfigParses(last.stdin)
    /\ last.args = <<>>
    /\ IsError(PrevAddress.err)
    /\ last.stdin.prevResult.shape = "020"
    /\ Executed("DEL", "error")

\* C13: on the destroy path a failure to obtain the metadata-store client,
\* the address being known, does not keep Destroy from attempting to remove
\* the rules of that address.
C13_DestroyCleansWithoutClient ==
    (/\ last.cmd = "DEL"
     /\ ConfigParses(last.stdin)
     /\ ~IsError(PrevAddress.err)
     /\ ~MissingIdentity(last.args)
     /\ ~last.env.client)
        => CountCalls("iptables.New") >= 1

\* The number of calls op in a sequence of calls.
CountIn(calls, op) == Cardinality({i \in DOMAIN calls : calls[i].op = op})

\* C14: a Create that returns an error made no modifying call to the rule
\* tool, and the rule table is what it was before the invocation.
C14_FailedCreateLeavesTable ==
    [][(last.cmd = "none" /\ last'.cmd = "ADD" /\ IsError(last'.err)) =>
         /\ table' = table
         /\ CountIn(last'.calls, "Append") = 0
         /\ CountIn(last'.calls, "Delete") = 0
      ]_vars

C14_Witness ==
    /\ last.cmd = "ADD"
    /\ IsError(last.err)
    /\ Executed("ADD", "ok")
    /\ last.err.chain[1] = "failed to extract pod IP from delegate result"
    /\ \E r \in RuleSpecs : table[r] = 1

\* The configuration blob fails validation: it is not JSON, or it has no
\* delegate, or its credential path is missing, relative, or contains "..".
InvalidConfig(stdin) ==
    \/ ~stdin.json
    \/ stdin.delegate.raw = "absent"
    \/ stdin.kubeconfig = <<>>
    \/ stdin.kubeconfig[1] # "/"
    \/ \E i \in 1..(Len(stdin.kubeconfig) - 1) :
          stdin.kubeconfig[i] = "." /\ stdin.kubeconfig[i + 1] = "."

\* C15: a Create whose configuration fails validation returns a configuration
\* error and calls neither the delegate nor the metadata store nor the rule tool.
C15_CreateRejectsInvalidConfig ==
    (last.cmd = "ADD" /\ InvalidConfig(last.stdin))
        => /\ IsError(last.err)
           /\ last.err.chain[1] = "failed to parse config"
           /\ last.calls = <<>>
           /\ last.out = NoOutput

C15_Witness ==
    /\ last.cmd = "ADD"
    /\ last.stdin.kubeconfig = <<"/", "e", "/", ".", ".", "/", "k">>
    /\ ~MissingIdentity(last.args)
    /\ last.err.chain = <<"failed to parse config",
                          "kubeconfig path cannot contain '..' components">>
    /\ last.calls = <<>>

-----------------------------------------------------------------------------
(* Properties of the mark-rule manager, under SpecRules.                    *)

\* The step in which a call cmd of the manager returns.
Returns(cmd) == last.cmd = "none" /\ last'.cmd = cmd

\* The rulespec the returning call was about, when its inputs are valid.
ValidPair == ~IsError(ValidateRuleInput(last'.args[1], last'.args[2]))

Pair == RuleSpec(last'.args[1], last'.args[2])

\* C8: with the calls serialized, the table never holds more than one copy of
\* a rule; it holds one after a successful Add and none after a successful
\* Delete; an Add of a rule that is there and a Delete of one that is not
\* leave the table as it is and succeed (the tool being reachable).
C8_AddDeleteIdempotent ==
    [][/\ \A r \in RuleSpecs : table'[r] <= 1
       /\ (Returns("AddMarkRule") /\ ValidPair) =>
             /\ ~IsError(last'.err) => table'[Pair] = 1
             /\ table[Pair] = 1 => table' = table
             /\ (table[Pair] = 1 /\ last'.env.fault \notin {"init", "exists"})
                   => ~IsError(last'.err)
       /\ (Returns("DeleteMarkRule") /\ ValidPair) =>
             /\ ~IsError(last'.err) => table'[Pair] = 0
             /\ table[Pair] = 0 => table' = table
             /\ (table[Pair] = 0 /\ last'.env.fault \notin {"init", "exists"})
                   => ~IsError(last'.err)
      ]_vars

C8_Witness ==
    /\ last.cmd = "DeleteMarkRule"
    /\ last.args = <<"10.200.1.5", " 0X10">>
    /\ Called("Exists", "false")
    /\ CountCalls("Delete") = 0
    /\ ~IsError(last.err)
    /\ \E r \in RuleSpecs : table[r] = 1

\* The last call was one of the three operations of the manager.
ManagerCall == last.cmd \in {"AddMarkRule", "DeleteMarkRule", "RuleExists"}

\* The tag texts that are an allow-list value once the surrounding blanks are
\* removed and the letters lowered.
NormalisesToAllowed == {"0x10", "0x20", " 0X10"}

C18_RejectsMalformedAddresses ==
    (ManagerCall /\ last.args[1] \in {"", " ", "10.200.1.5; rm -rf /"})
        => /\ IsError(last.err)
           /\ last.calls = <<>>
           /\ last.err.chain[1] \in {"podIP cannot be empty", "invalid IP address format"}

C18_Witness ==
    /\ last.cmd = "AddMarkRule"
    /\ last.args = <<"10.200.1.5; rm -rf /", "0x10">>
    /\ last.err.chain = <<"invalid IP address format">>
    /\ last.calls = <<>>

-----------------------------------------------------------------------------
(* Properties of the annotation resolver, under SpecResolve.                *)

\* The resolution that returned was for the pod of the store, under this key.
ResolvedFor(key) ==
    last.cmd = "GetFwmark" /\ last.args = <<PodName, key>>

Carries(object, key) == object.exists /\ key \in DOMAIN object.ann

Lacks(object, key) == object.exists /\ key \notin DOMAIN object.ann

\* C19: the pod's allow-listed value wins and the namespace is not queried;
\* when the pod lacks the key the namespace's allow-listed value is returned;
\* when neither carries the key the empty tag is returned without error.
C19_PodThenNamespace ==
    \A key \in AnnotationKeys :
        ResolvedFor(key) =>
            /\ (/\ last.env.api.pod = "ok"
                /\ Carries(store.pod, key)
                /\ store.pod.ann[key] \in {"0x10", "0x20"})
                  => /\ last.fwmark = store.pod.ann[key]
                     /\ ~IsError(last.err)
                     /\ CountCalls("GetNamespace") = 0
            /\ (/\ last.env.api = [pod |-> "ok", ns |-> "ok"]
                /\ Lacks(store.pod, key)
                /\ Carries(store.ns, key)
                /\ store.ns.ann[key] \in {"0x10", "0x20"})
                  => /\ last.fwmark = store.ns.ann[key]
                     /\ ~IsError(last.err)
            /\ (/\ last.env.api = [pod |-> "ok", ns |-> "ok"]
                /\ Lacks(store.pod, key)
                /\ Lacks(store.ns, key))
                  => /\ last.fwmark = ""
                     /\ ~IsError(last.err)

C19_Witness ==
    /\ ResolvedFor(DefaultAnnotationKey)
    /\ store.pod = Object(Annotated("custom/fwmark", "0x10"))
    /\ store.ns = Object(Annotated(DefaultAnnotationKey, "0x20"))
    /\ last.fwmark = "0x20"
    /\ Called("GetNamespace", "ok")

\* C20: the empty tag without error is returned only when both objects were
\* fetched and neither carries the key; a value outside the allow-list, on
\* the pod or on the namespace, is an error, and the namespace's value does
\* not replace an invalid value of the pod; a failed or not-found lookup is
\* an error.
C20_AbsentOnlyWhenBothLackKey ==
    /\ last.cmd = "GetFwmark" => last.fwmark \in {"", "0x10", "0x20"}
    /\ (last.cmd = "GetFwmark" /\ IsError(last.err)) => last.fwmark = ""
    /\ (last.cmd = "GetFwmark" /\ last.args[1] # PodName) => IsError(last.err)
    /\ \A key \in AnnotationKeys :
        ResolvedFor(key) =>
            /\ (last.fwmark = "" /\ ~IsError(last.err))
                  => /\ Called("GetPod", "ok")
                     /\ Called("GetNamespace", "ok")
                     /\ Lacks(store.pod, key)
                     /\ Lacks(store.ns, key)
            /\ (/\ last.env.api.pod = "ok"
                /\ Carries(store.pod, key)
                /\ store.pod.ann[key] \notin {"0x10", "0x20"})
                  => /\ IsError(last.err)
                     /\ last.err.chain[1] = "invalid fwmark in pod annotation"
                     /\ CountCalls("GetNamespace") = 0
            /\ (/\ last.env.api = [pod |-> "ok", ns |-> "ok"]
                /\ Lacks(store.pod, key)
                /\ Carries(store.ns, key)
                /\ store.ns.ann[key] \notin {"0x10", "0x20"})
                  => /\ IsError(last.err)
                     /\ last.err.chain[1] = "invalid fwmark in namespace annotation"
            /\ (last.env.api.pod = "error" \/ ~store.pod.exists)
                  => /\ IsError(last.err)
                     /\ last.err.chain[1] \in {"failed to get pod", "pod not found"}
            /\ (/\ last.env.api.pod = "ok"
                /\ Lacks(store.pod, key)
                /\ (last.env.api.ns = "error" \/ ~store.ns.exists))
                  => /\ IsError(last.err)
                     /\ last.err.chain[1] \in {"failed to get namespace",
                                               "namespace not found"}

C20_Witness ==
    /\ ResolvedFor(DefaultAnnotationKey)
    /\ store.pod = Object(Annotated(DefaultAnnotationKey, "0x30"))
    /\ store.ns = Object(Annotated(DefaultAnnotationKey, "0x20"))
    /\ last.env.api = [pod |-> "ok", ns |-> "ok"]
    /\ last.err.chain[1] = "invalid fwmark in pod annotation"
    /\ last.fwmark = ""

-----------------------------------------------------------------------------
(* Properties of concurrent manager calls, under SpecConcurrent.            *)

BothDone == running.a.pc = "done" /\ running.b.pc = "done"

\* The table after the two calls run one after the other, Add first or
\* Delete first, on the table they started on.
AddThenDelete ==
    DeleteMarkRule(running.b.podIP, running.b.fwmark, running.b.fault,
        AddMarkRule(running.a.podIP, running.a.fwmark, running.a.fault,
                    running.before).table).table

DeleteThenAdd ==
    AddMarkRule(running.a.podIP, running.a.fwmark, running.a.fault,
        DeleteMarkRule(running.b.podIP, running.b.fwmark, running.b.fault,
                       running.before).table).table

\* C16: an Add for one pod and a Delete for another, on different (address,
\* tag) tuples, leave after every interleaving of their rule tool operations
\* the table that running them one after the other leaves, in either order.
C16_DisjointCallsCommute ==
    BothDone => table = AddThenDelete /\ table = DeleteThenAdd

C16_Witness ==
    /\ BothDone
    /\ running.order = <<"a", "b", "a", "b", "b", "a">>
    /\ running.before[RuleSpec(running.a.podIP, running.a.fwmark)] = 0
    /\ running.before[RuleSpec(running.b.podIP, running.b.fwmark)] = 1
    /\ running.a.podIP = running.b.podIP
    /\ table[RuleSpec(running.a.podIP, running.a.fwmark)] = 1
    /\ table[RuleSpec(running.b.podIP, running.b.fwmark)] = 0

-----------------------------------------------------------------------------
(* Properties of the result extractor, under SpecExtract.                   *)

\* The positions of the IPv4 entries of an address list.
IPv4Positions(ips) == {i \in DOMAIN ips : ips[i] \in {"10.200.1.5", "10.200.1.6"}}

\* C21: ExtractPodIP fails on a nil result and on a result of neither known
\* type; on both known types it fails with the no-addresses error on an
\* empty list, returns the first IPv4 entry in list order, skipping nil and
\* IPv6 entries, and fails with the no-IPv4 error when a non-empty list has
\* no IPv4 entry.
C21_FirstIPv4InListOrder ==
    last.cmd = "ExtractPodIP" =>
        LET result == last.args[1]
            v4     == IPv4Positions(result.ips)
        IN
        /\ result.shape = "nil" =>
              last.err.chain = <<"CNI result is nil">> /\ last.ip = ""
        /\ result.shape \notin {"nil", "100", "040"} =>
              last.err.chain = <<"unsupported CNI result type">> /\ last.ip = ""
        /\ (result.shape \in {"100", "040"} /\ result.ips = <<>>) =>
              last.err.chain = <<"CNI result contains no IP addresses">> /\ last.ip = ""
        /\ (result.shape \in {"100", "040"} /\ result.ips # <<>> /\ v4 = {}) =>
              /\ last.err.chain = <<"CNI result contains no IPv4 addresses (only IPv6)">>
              /\ last.ip = ""
        /\ (result.shape \in {"100", "040"} /\ v4 # {}) =>
              /\ ~IsError(last.err)
              /\ \E i \in v4 : last.ip = result.ips[i] /\ \A j \in v4 : i <= j

C21_Witness ==
    /\ last.cmd = "ExtractPodIP"
    /\ last.args[1] = [shape |-> "040", ips |-> <<"<nil>", "2001:db8::1", "10.200.1.6">>]
    /\ last.ip = "10.200.1.6"
    /\ ~IsError(last.err)

-----------------------------------------------------------------------------
(* Further properties of the command handlers, under Spec.                  *)

\* The table holds no rule for the address of the previous result that the
\* blob carries (or the blob carries no such address).
RuleAbsent(stdin, tbl) ==
    \/ IsError(ExtractPodIP(stdin.prevResult).err)
    \/ \A m \in MarkStrings :
          RuleSpec(ExtractPodIP(stdin.prevResult).ip, m) \in DOMAIN tbl
              => tbl[RuleSpec(ExtractPodIP(stdin.prevResult).ip, m)] = 0

\* C22: a Destroy run when the pod's rule is already absent (a second Destroy,
\* or a Destroy with no Create before it) returns success and leaves the rule
\* table as it was.
C22_DestroyToleratesAbsentRule ==
    [][(last.cmd = "none" /\ last'.cmd = "DEL" /\ RuleAbsent(last'.stdin, table)) =>
         /\ ~IsError(last'.err)
         /\ table' = table
      ]_vars

C22_Witness ==
    /\ last.cmd = "DEL"
    /\ ~IsError(PrevAddress.err)
    /\ ~MissingIdentity(last.args)
    /\ Executed("DEL", "error")
    /\ RuleAbsent(last.stdin, table)
    /\ ~IsError(last.err)

\* The call modifies the rule table (iptables -A or -D).
Modifying(c) == c.op \in {"Append", "Delete"}

\* C23: no step is retried within an invocation: the delegate is run at most
\* once, the pod and the namespace are looked up at most once each, and a
\* modifying rule-tool call is attempted at most once per (address, tag) pair,
\* whether the step succeeds or fails.
C23_NoStepIsRetried ==
    last.cmd \in {"ADD", "DEL", "CHECK"}
        => /\ CountCalls("exec") <= 1
           /\ CountCalls("GetPod") <= 1
           /\ CountCalls("GetNamespace") <= 1
           /\ \A i, j \in DOMAIN last.calls :
                 (/\ i < j
                  /\ Modifying(last.calls[i])
                  /\ Modifying(last.calls[j]))
                     => <<last.calls[i].a, last.calls[i].b>>
                            # <<last.calls[j].a, last.calls[j].b>>

C23_Witness ==
    /\ last.cmd = "ADD"
    /\ Executed("ADD", "ok")
    /\ Called("GetPod", "ok")
    /\ Called("GetNamespace", "ok")
    /\ Called("Append", "error")
    /\ CountCalls("Append") = 1
    /\ ~IsError(last.err)

\* The calls made to the rule tool.
RuleToolCalls(calls) ==
    SelectSeq(calls, LAMBDA c : c.op \in {"iptables.New", "Exists", "Append", "Delete"})

\* The tag resolution of the returned invocation succeeded with the empty
\* tag: the pod and the namespace were found and neither carries the key.
EmptyTag ==
    /\ ~MissingIdentity(last.args)
    /\ last.env.client
    /\ Called("GetPod", "ok")
    /\ Called("GetNamespace", "ok")
    /\ ParseConfig(last.stdin).conf.AnnotationKey \notin DOMAIN store.pod.ann
    /\ ParseConfig(last.stdin).conf.AnnotationKey \notin DOMAIN store.ns.ann

\* C24: when the tag resolution succeeds with the empty tag, Create makes no
\* call to the rule tool, leaves the rule table unchanged and returns the
\* delegate's result as success.
C24_EmptyTagInstallsNothing ==
    [][(last.cmd = "none" /\ last'.cmd = "ADD" /\ EmptyTag') =>
         /\ RuleToolCalls(last'.calls) = <<>>
         /\ table' = table
         /\ ~IsError(last'.err)
         /\ last'.out.result = last'.env.result
      ]_vars

C24_Witness ==
    /\ last.cmd = "ADD"
    /\ EmptyTag
    /\ Resolved.fwmark = ""
    /\ ~IsError(Resolved.err)
    /\ last.env.fault # "none"
    /\ last.out.result = last.env.result
    /\ last.out.result # NilResult
    /\ \E r \in RuleSpecs : table[r] = 1

\* C30: when the blob given to Destroy or Verify carries a previous result
\* whose first IPv4 address is A, the address the command obtains from the
\* parsed configuration is A.
C30_PrevResultAddressIsKnown ==
    (/\ last.cmd \in {"DEL", "CHECK"}
     /\ ConfigParses(last.stdin)
     /\ ~IsError(PrevAddress.err))
        => PrevResultIP(ParseConfig(last.stdin).conf).ip = PrevAddress.ip

C35_DestroyLeavesNoRuleForAddress ==
    (/\ last.cmd = "DEL"
     /\ ConfigParses(last.stdin)
     /\ ~IsError(PrevAddress.err)
     /\ \A i \in DOMAIN last.calls :
           last.calls[i].op \in {"iptables.New", "Exists", "Delete"}
               => last.calls[i].res # "error")
        => \A r \in RuleSpecs : r[1] = PrevAddress.ip => table[r] = 0

\* C36: in every reachable state the table holds rules for at most one tag
\* value per source address, the annotations being free to change between
\* the invocations.
C36_OneTagPerAddress ==
    \A r, s \in RuleSpecs :
        (r[1] = s[1] /\ table[r] > 0 /\ table[s] > 0) => r[2] = s[2]

-----------------------------------------------------------------------------
(* Properties of the argument parsing, under SpecArgs.                      *)

\* The positions at which a pair of the text begins: the start of the text
\* and every position after a ";".
PairStarts(text) == {i \in 1..(Len(text) + 1) : i = 1 \/ text[i - 1] = ";"}

\* The last position of the pair that begins at i.
PairEnd(text, i) ==
    CHOOSE e \in (i - 1)..Len(text) :
        /\ \A j \in i..e : text[j] # ";"
        /\ (e = Len(text) \/ text[e + 1] = ";")

\* The pairs of the text whose part before the first "=" is exactly key.
PairsOf(text, key) ==
    {i \in PairStarts(text) :
        i + 1 <= Len(text) /\ text[i] = key /\ text[i + 1] = "="}

\* What the key ends up with: the text after the first "=" of its last pair,
\* or nothing when the text has no pair of that key.
FinalValue(text, key) ==
    IF PairsOf(text, key) = {} THEN <<>>
    ELSE LET i == CHOOSE k \in PairsOf(text, key) : \A j \in PairsOf(text, key) : j <= k
         IN  SubSeq(text, i + 2, PairEnd(text, i))

\* C25: the argument text is split on ";" and each pair on its first "="
\* only; pairs without "=" and unknown keys are ignored; parsing succeeds
\* exactly when both K8S_POD_NAME and K8S_POD_NAMESPACE end up non-empty, and
\* then returns the text after the first "=" of each key (which may itself
\* hold "="); on failure it returns an empty name and namespace with an error.
C25_ArgumentsParsedByFirstEquals ==
    last.cmd = "parseCNIArgs" =>
        LET name == FinalValue(last.args, "K8S_POD_NAME")
            ns   == FinalValue(last.args, "K8S_POD_NAMESPACE")
        IN  IF name # <<>> /\ ns # <<>>
            THEN /\ ~IsError(last.err)
                 /\ last.podName = name
                 /\ last.podNamespace = ns
            ELSE /\ IsError(last.err)
                 /\ last.podName = <<>>
                 /\ last.podNamespace = <<>>

C25_Witness ==
    /\ last.cmd = "parseCNIArgs"
    /\ last.args = <<"w", ";", "K8S_POD_NAME", "=", "a", "=", "b", ";",
                     "K8S_POD_NAMESPACE", "=", "K8S_POD_NAME", "=", "web">>
    /\ ~IsError(last.err)
    /\ last.podName = <<"a", "=", "b">>
    /\ last.podNamespace = <<"K8S_POD_NAME", "=", "web">>

-----------------------------------------------------------------------------
(* Properties of the configuration parsing, under SpecConfig.               *)

\* The parsing accepted the blob.
Accepted == last.cmd = "ParseConfig" /\ ~IsError(last.err)

\* The credential path of the blob passes every check made on it.
PathAcceptable(path) ==
    /\ path # <<>>
    /\ path[1] = "/"
    /\ \A i \in 1..(Len(path) - 1) : ~(path[i] = "." /\ path[i + 1] = ".")

\* C26 as stated: every accepted configuration has a delegate blob that is
\* present and holds a plugin-type field; a blob without one is rejected by
\* the configuration parsing.
C26_AcceptedDelegateHasType ==
    Accepted => /\ last.conf.Delegate.raw = "object"
                /\ last.conf.Delegate.type # ""

\* C26 as the parsing has it: every accepted configuration has a delegate
\* field that is present, kept as it was given; the parsing does not look
\* inside it, so a blob without a type field ({} or null) is accepted when
\* the rest of the configuration is valid.
C26_AcceptedDelegateIsPresent ==
    last.cmd = "ParseConfig" =>
        /\ ~IsError(last.err) =>
              /\ last.stdin.delegate.raw # "absent"
              /\ last.conf.Delegate = last.stdin.delegate
        /\ (/\ last.stdin.json
            /\ last.stdin.delegate.raw # "absent"
            /\ last.stdin.delegate.type = ""
            /\ PathAcceptable(last.stdin.kubeconfig))
              => ~IsError(last.err)

C26_Witness ==
    /\ Accepted
    /\ last.stdin.delegate.raw = "object"
    /\ last.stdin.delegate.type = ""
    /\ last.conf.Delegate.type = ""

\* C27: every accepted configuration has a non-empty, absolute credential
\* path without "..", and a non-empty routing-tag key: the supplied one when
\* one is given, the default otherwise; a well-formed blob that is rejected is
\* rejected for the first failing check in the order delegate missing, path
\* missing, path not absolute, path contains "..".
C27_AcceptedPathAndKey ==
    last.cmd = "ParseConfig" =>
        LET path    == last.stdin.kubeconfig
            missing == last.stdin.delegate.raw = "absent"
            dotdot  == \E i \in 1..(Len(path) - 1) : path[i] = "." /\ path[i + 1] = "."
        IN
        /\ ~IsError(last.err) =>
              /\ PathAcceptable(last.conf.Kubeconfig)
              /\ last.conf.Kubeconfig = path
              /\ last.conf.AnnotationKey # ""
              /\ last.conf.AnnotationKey =
                    IF last.stdin.annotationKey # "" THEN last.stdin.annotationKey
                    ELSE "tenant.routing/fwmark"
        /\ last.stdin.json =>
              /\ missing => last.err.chain = <<"delegate plugin configuration is required">>
              /\ (~missing /\ path = <<>>)
                    => last.err.chain = <<"kubeconfig path is required">>
              /\ (~missing /\ path # <<>> /\ path[1] # "/")
                    => last.err.chain = <<"kubeconfig path must be absolute">>
              /\ (~missing /\ path # <<>> /\ path[1] = "/" /\ dotdot)
                    => last.err.chain = <<"kubeconfig path cannot contain '..' components">>
              /\ (~missing /\ PathAcceptable(path)) => ~IsError(last.err)

C27_Witness ==
    /\ last.cmd = "ParseConfig"
    /\ last.stdin.json
    /\ last.stdin.delegate.raw = "object"
    /\ last.stdin.kubeconfig = <<".", ".", "/", "k">>
    /\ last.err.chain = <<"kubeconfig path must be absolute">>

\* The place of a call in the order of Create's steps.
StepRank(op) ==
    CASE op = "exec"         -> 1
      [] op = "NewClient"    -> 2
      [] op = "GetPod"       -> 3
      [] op = "GetNamespace" -> 4
      [] op = "iptables.New" -> 5
      [] op = "Exists"       -> 6
      [] op = "Append"       -> 7
      [] OTHER               -> 0

\* The calls made after the delegate's: to the metadata store and the rule tool.
LaterCalls(calls) == SelectSeq(calls, LAMBDA c : c.op # "exec")

\* C28: Create runs its steps in the order configuration parse, argument
\* parse, delegate create, address extraction, metadata-store client, tag
\* resolution, rule installation, each after its predecessor returned; a
\* failure of the delegate or of the address extraction is fatal and is
\* followed by no metadata-store lookup and no rule-tool call; the rule is
\* installed for the address extracted from this invocation's delegate result.
C28_CreateStepsInOrder ==
    last.cmd = "ADD" =>
        LET address == ExtractPodIP(last.env.result) IN
        /\ \A i, j \in DOMAIN last.calls :
              i < j => /\ StepRank(last.calls[i].op) > 0
                       /\ StepRank(last.calls[i].op) < StepRank(last.calls[j].op)
        /\ ~ConfigParses(last.stdin) =>
              /\ last.calls = <<>>
              /\ IsError(last.err)
              /\ last.err.chain[1] = "failed to parse config"
        /\ (ConfigParses(last.stdin) /\ MissingIdentity(last.args)) =>
              /\ last.calls = <<>>
              /\ IsError(last.err)
              /\ last.err.chain[1] = "failed to parse CNI_ARGS"
        /\ (ConfigParses(last.stdin) /\ ~MissingIdentity(last.args)
              /\ DelegateFails(last.stdin, last.env)) =>
              /\ LaterCalls(last.calls) = <<>>
              /\ IsError(last.err)
              /\ last.err.chain[1] = "delegation failed"
        /\ (Executed("ADD", "ok") /\ IsError(address.err)) =>
              /\ LaterCalls(last.calls) = <<>>
              /\ IsError(last.err)
              /\ last.err.chain[1] = "failed to extract pod IP from delegate result"
        /\ LaterCalls(last.calls) # <<>> =>
              /\ last.calls[1].op = "exec"
              /\ last.calls[1].res = "ok"
              /\ ~IsError(address.err)
              /\ last.calls[2].op = "NewClient"
        /\ CountCalls("GetPod") > 0 => Called("NewClient", "ok")
        /\ CountCalls("iptables.New") > 0 =>
              Called("GetPod", "ok") /\ ~Called("GetNamespace", "error")
                                     /\ ~Called("GetNamespace", "notfound")
        /\ \A i \in DOMAIN last.calls :
              last.calls[i].op \in {"Exists", "Append"} =>
                  last.calls[i].a = address.ip

C28_Witness ==
    /\ last.cmd = "ADD"
    /\ last.env.result.ips = <<"2001:db8::1", "10.200.1.6">>
    /\ Len(last.calls) = 7
    /\ last.calls[7].op = "Append"
    /\ last.calls[7].a = "10.200.1.6"
    /\ last.calls[7].res = "ok"
    /\ \E m \in ValidFwmarkValues : table[RuleSpec("10.200.1.5", m)] = 1

-----------------------------------------------------------------------------
(* Properties of the blocking calls, under SpecBlocking.                    *)

\* C29: every Create, Destroy and Verify invocation eventually returns: no
\* step can block the invocation forever.
C29_EveryInvocationReturns == (running # NoneRunning) ~> (running = NoneRunning)

\* What does hold: an invocation whose rule tool answers returns, whatever
\* the delegate and the metadata store do.
ReturnsWhenRuleToolAnswers ==
    (running # NoneRunning /\ "tool" \notin running.silent)
        ~> (running = NoneRunning)

\* A lookup that ran into its deadline in Create yields success with the
\* delegate's output and no rule-tool call; a chained binary that ran into
\* its deadline is a fatal error.
TimeoutAbortsOnlyItsStep ==
    (last.cmd = "ADD" /\ last.expired # {}) =>
        /\ "exec" \in last.expired =>
              IsError(last.err) /\ last.err.chain[1] = "delegation failed"
        /\ "exec" \notin last.expired =>
              /\ ~IsError(last.err)
              /\ last.out.result = last.env.result
              /\ CountCalls("iptables.New") = 0

\* An invocation is blocked in a call to the rule tool, which stays silent.
BlockedInRuleTool ==
    /\ Blocked
    /\ running.cmd = "ADD"
    /\ WaitsFor(Pending) = "tool"
    /\ "tool" \in running.silent

-----------------------------------------------------------------------------
(* Properties of the delegation operations, under SpecDelegate.             *)

\* One of the three delegation operations returned.
Delegated == last.cmd \in {"DelegateAdd", "DelegateDel", "DelegateCheck"}

\* C31: each delegation operation returns an error without running the
\* chained binary when the blob is not valid JSON, when it has no non-empty
\* type field, or when CNI_PATH is unset; the checks are made in that order,
\* so a missing type is reported even when CNI_PATH is unset too.
C31_DelegationChecksInOrder ==
    Delegated =>
        LET blob == last.args[1] IN
        /\ blob.raw = "invalid" =>
              /\ last.calls = <<>>
              /\ IsError(last.err)
              /\ last.err.chain[1] = "failed to parse delegate config"
        /\ (blob.raw \in {"object", "null"} /\ blob.type = "") =>
              /\ last.calls = <<>>
              /\ last.err.chain = <<"delegate config missing required 'type' field">>
        /\ (blob.raw = "object" /\ blob.type # "" /\ ~last.env.cniPath) =>
              /\ last.calls = <<>>
              /\ last.err.chain = <<"CNI_PATH environment variable not set">>
        /\ last.calls # <<>> =>
              blob.raw = "object" /\ blob.type # "" /\ last.env.cniPath

C31_Witness ==
    /\ last.cmd = "DelegateDel"
    /\ last.args[1].raw = "object"
    /\ last.args[1].type = ""
    /\ ~last.env.cniPath
    /\ last.calls = <<>>
    /\ last.err.chain = <<"delegate config missing required 'type' field">>

\* C32: the configuration handed to the chained binary is the delegate blob
\* with its name field set to the network name of the parent configuration
\* (in place of any name the blob had) and every other field unchanged.
C32_OnlyTheNameIsInjected ==
    Delegated =>
        \A i \in DOMAIN last.calls :
            last.calls[i].op = "exec" =>
                /\ last.calls[i].b.name = last.args[2]
                /\ last.calls[i].b = [last.args[1] EXCEPT !.name = last.args[2]]

-----------------------------------------------------------------------------
(* Properties of two concurrent Adds of one rule, under SpecSameRule.       *)

\* C33: also when two Adds for the same (address, tag) pair run at the same
\* time and interleave at single rule-tool operations, the table never holds
\* more than one rule for that pair.
C33_ConcurrentAddsKeepOneRule ==
    table[RuleSpec(running.a.podIP, running.a.fwmark)] <= 1

-----------------------------------------------------------------------------
(* Properties of Verify and of the existence check, under SpecVerify.       *)

\* C37: Verify never modifies the rule table: for every input and every
\* outcome the table after Verify is the table before it; likewise the
\* manager's existence check never changes the table.
C37_VerifyLeavesTable ==
    [][(last.cmd = "none" /\ last'.cmd \in {"CHECK", "RuleExists"}) =>
         /\ table' = table
         /\ CountIn(last'.calls, "Append") = 0
         /\ CountIn(last'.calls, "Delete") = 0
      ]_vars

C37_Witness ==
    /\ last.cmd = "RuleExists"
    /\ ~IsError(last.err)
    /\ ~last.exists
    /\ Called("Exists", "false")
    /\ table[RuleSpec(last.args[1], last.args[2])] = 0
    /\ \E r \in RuleSpecs : table[r] = 1

-----------------------------------------------------------------------------
(* The manager's and the resolver's validation compared, under SpecRules.   *)

\* C38: the manager and the resolver accept exactly the same tag strings, and
\* the tag the manager writes to the rule tool is an exact allow-list value.
C38_ValidatorsAgree ==
    (ManagerCall /\ last.args[1] \in IPv4Addrs) =>
        /\ (last.err.chain # <<"invalid fwmark">>)
              <=> ~IsError(k8s_validateFwmark(last.args[2]))
        /\ \A i \in DOMAIN last.calls :
              last.calls[i].op \in {"Exists", "Append", "Delete"}
                 => last.calls[i].b \in ValidFwmarkValues

====
